---- MODULE Spec2Model ----
(***************************************************************************)
(* State-machine model of the livestream capture and republish pipeline:   *)
(*   - the live-state machine (stream_monitor.py, scheduler.py, app.py),   *)
(*   - the segment pipeline (recording/segment_pipeline.py,                *)
(*     recording/recording_service.py),                                    *)
(*   - the upload orchestrator and its persistence (uploader.py, app.py,   *)
(*     models.py).                                                         *)
(* Time is an integer clock.  One clock unit stands for a fixed wall-clock *)
(* span; the durations of the program keep their order.                    *)
(***************************************************************************)
EXTENDS Integers, Sequences, FiniteSets, TLC

\* ------------------------------------------------------------------ bounds
MaxTime == 3
MaxSessions == 2
MaxSegments == 2

\* ------------------------------------------------------- program constants
\* A null column value / Python None for a timestamp or a bvid.
NULL == -1
\* config.STREAM_START_TIME_ADJUSTMENT, in clock units.
STREAM_START_TIME_ADJUSTMENT == 1
\* clean_stale_sessions: timedelta(hours=24) and timedelta(hours=12).
STALE_HORIZON == 2
STALE_CAP == 1

Streamers == {"s1", "s2"}
ApiResults == {"live", "offline", "unknown"}

VARIABLES
    now,          \* local_now()
    last_status,  \* StreamStatusMonitor._last_status, per streamer
    sessions,     \* table stream_sessions, in id order
    ev,           \* the last handler that ran, and what it observed
    pc,           \* _run_streamer: where the recording loop of one streamer is
    seg,          \* number of the segment started last (0: none yet)
    rec,          \* per segment: the recorder task (FfmpegRecorder.record)
    col,          \* per segment: the chat task (DouyuDanmakuCollector.collect)
    files,        \* PROCESSING_FOLDER: the <<segment, suffix>> files on disk
    created,      \* every .part file a task has created so far
    segExit,      \* per segment: how run_one_segment left ("none" while inside)
    uploaded,     \* table uploaded_videos: its rows
    upload_dir,   \* UPLOAD_FOLDER: the names of the video files in it
    run,          \* upload_to_bilibili: the buckets the running call still has to do
    up,           \* the last upload operation that ran, and what it did
    cfg,          \* config.py: the settings the handlers read
    clock,        \* int(time.time()) as the stream resolver reads it
    key_cache,    \* DouyuH5PlayResolver._key_data and ._key_expire_at
    issued,       \* number of key bundles the encryption endpoint has issued
    resolve,      \* resolve_stream_url: the call that runs, or the last one
    job,          \* the pipeline tick or manual run in progress, or the last one
    stt,          \* recording/stt_codec.py: the arguments of a call and what it gave
    overlap,      \* two calls of upload_to_bilibili in flight at once, and their calls
    dest,         \* the destination: the calls it accepted, in order
    jobs,         \* the scheduler's job store: the one-shot jobs that wait
    chat,         \* one call of DouyuDanmakuCollector.collect and its XML writer
    checked,      \* _run_streamer: what its last check_is_streaming returned
    proc          \* per segment: its files in PROCESSING_FOLDER and UPLOAD_FOLDER

liveVars == <<now, last_status, sessions, ev>>
segVars == <<pc, seg, rec, col, files, created, segExit>>
upVars == <<uploaded, upload_dir, run, up>>
resolverVars == <<clock, key_cache, issued, resolve>>
extVars == <<cfg, resolverVars, job, stt, overlap, dest, jobs, chat, checked,
            proc>>
vars == <<now, last_status, sessions, ev, pc, seg, rec, col, files, created, segExit,
          uploaded, upload_dir, run, up, cfg, clock, key_cache, issued, resolve,
          job, stt, overlap, dest, jobs, chat, checked, proc>>

\* ---------------------------------------------------------- configuration

\* DELETE_UPLOADED_FILES_DELAY_HOURS = 24, in clock units.
DELAY_HOURS == 1

\* The settings of config.py the handlers of this model read or that the
\* claims name.
Config(delete, delay, after_end, skip, scheduled) ==
    [DELETE_UPLOADED_FILES |-> delete,
     DELETE_UPLOADED_FILES_DELAY_HOURS |-> delay,
     PROCESS_AFTER_STREAM_END |-> after_end,
     SKIP_VIDEO_ENCODING |-> skip,
     SCHEDULED_UPLOAD_ENABLED |-> scheduled]

\* config.py as shipped.
DefaultConfig == Config(FALSE, DELAY_HOURS, FALSE, FALSE, TRUE)

\* One pipeline tick or manual run: what started it, where it is, the steps
\* it has called so far, whether a step raised, and whether its gate on the
\* live status turned it away.
Job(kind, at, steps, raised, skipped) ==
    [kind |-> kind, at |-> at, steps |-> steps, raised |-> raised, skipped |-> skipped]

NoJob == Job("none", "done", <<>>, FALSE, FALSE)

\* ------------------------------------------- XML writer, chat collector

\* At most this many chat entries are written to one transcript.
MaxChat == 3

\* Chat texts: plain, and with characters XML reserves.
Texts == {"a", "&", "<"}

\* xml.sax.saxutils.escape
xml_escape(text) ==
    IF text = "&" THEN "&amp;" ELSE IF text = "<" THEN "&lt;"
    ELSE IF text = ">" THEN "&gt;" ELSE text

\* BilibiliXmlWriter: _fp is set, what the text buffer of _fp holds, and what
\* the file holds.
Writer(fp, buf, disk) == [fp |-> fp, buf |-> buf, disk |-> disk]

\* BilibiliXmlWriter.__init__
NewWriter == Writer(FALSE, <<>>, <<>>)

\* open(): mode "w" empties the file; declaration and root start tag, flushed.
open(w) ==
    IF w.fp THEN w ELSE Writer(TRUE, <<>>, <<"<?xml?>", "<i>">>)

\* write_danmaku(offset_seconds, text) on an open writer: _fp.write of the
\* entry, which is shorter than the buffer of _fp.
write_danmaku(w, text) ==
    [w EXCEPT !.buf = Append(@, <<"d", xml_escape(text)>>)]

\* close(): root end tag, flush, _fp.close(), _fp = None.
close(w) ==
    IF ~w.fp THEN w ELSE Writer(FALSE, <<>>, w.disk \o w.buf \o <<"</i>">>)

\* One call of collect: where it is, duration_seconds, its writer, the
\* websocket, the heartbeat task and whether it was awaited, the entries
\* counted, the socket failures so far, how the call ended and with what; and
\* of the writer the texts it has accepted and whether it rejected the last
\* write.
Chat(at, duration, w, ws, hb, awaited, count, failed, exit, result, accepted, rejected) ==
    [pc |-> at, duration |-> duration, w |-> w, ws |-> ws, hb |-> hb,
     awaited |-> awaited, count |-> count, failed |-> failed, exit |-> exit,
     result |-> result, accepted |-> accepted, rejected |-> rejected]

NoChat == Chat("idle", 1, NewWriter, "none", "none", FALSE, 0, {}, "none", 0, <<>>, FALSE)

\* A finally that leaves the heartbeat task alone.
heartbeat_finally_skipped(c) == c

\* finally: heartbeat_task.cancel(); await heartbeat_task under
\* suppress(CancelledError).  A task that ended with an exception hands it to
\* the await.
heartbeat_finally(c) ==
    IF c.hb = "none" THEN c
    ELSE [c EXCEPT !.hb = IF @ = "running" THEN "cancelled" ELSE @,
                   !.awaited = TRUE,
                   !.exit = IF c.hb = "failed" THEN "raised" ELSE @]

\* finally: await ws.close() under suppress(Exception)
ws_finally(c) == IF c.ws = "none" THEN c ELSE [c EXCEPT !.ws = "closed"]

\* finally: writer.close()
writer_finally(c) == [c EXCEPT !.w = close(@)]

\* collect is left with how ("returned", "raised" or "cancelled") from
\* inside the blocks it has entered: their finally clauses run inside out.
leave(c, how) ==
    LET u == writer_finally(ws_finally(heartbeat_finally([c EXCEPT !.exit = how])))
    IN [u EXCEPT !.pc = "done",
                 !.result = IF u.exit = "returned" THEN u.count ELSE 0]

\* writer = BilibiliXmlWriter(output_path); writer.open()
CollectStart ==
    /\ chat.pc = "idle"
    /\ chat' = [chat EXCEPT !.w = open(@), !.pc = "connect"]
    /\ UNCHANGED <<cfg, resolverVars, job, stt, overlap, dest, jobs, checked, proc, liveVars, segVars, upVars>>

\* await self._connect_ws(session): ClientError and SSLError return 0, any
\* other error goes up.
Connect ==
    /\ chat.pc = "connect"
    /\ \E r \in {"ok", "client_error", "other_error"} :
          chat' = IF r = "ok" THEN [chat EXCEPT !.ws = "open", !.pc = "login"]
                  ELSE IF r = "client_error" THEN leave(chat, "returned")
                  ELSE leave(chat, "raised")
    /\ UNCHANGED <<cfg, resolverVars, job, stt, overlap, dest, jobs, checked, proc, liveVars, segVars, upVars>>

\* await ws.send_bytes(pack("type@=loginreq/..."))
SendLogin ==
    /\ chat.pc = "login"
    /\ \E sent_ok \in BOOLEAN :
          chat' = IF sent_ok THEN [chat EXCEPT !.pc = "join"]
                  ELSE leave([chat EXCEPT !.failed = @ \cup {"login"}], "raised")
    /\ UNCHANGED <<cfg, resolverVars, job, stt, overlap, dest, jobs, checked, proc, liveVars, segVars, upVars>>

\* await ws.send_bytes(pack("type@=joingroup/...")), then the heartbeat task
\* is created.
SendJoin ==
    /\ chat.pc = "join"
    /\ \E sent_ok \in BOOLEAN :
          chat' = IF sent_ok THEN [chat EXCEPT !.pc = "recv", !.hb = "running"]
                  ELSE leave([chat EXCEPT !.failed = @ \cup {"join"}], "raised")
    /\ UNCHANGED <<cfg, resolverVars, job, stt, overlap, dest, jobs, checked, proc, liveVars, segVars, upVars>>

\* A BINARY message with a chatmsg that has a text, while time is left.
ReceiveChat ==
    /\ chat.pc = "recv"
    /\ chat.duration > 0
    /\ chat.count < MaxChat
    /\ \E text \in Texts :
          chat' = [chat EXCEPT !.w = write_danmaku(@, text), !.count = @ + 1,
                               !.accepted = Append(@, text)]
    /\ UNCHANGED <<cfg, resolverVars, job, stt, overlap, dest, jobs, checked, proc, liveVars, segVars, upVars>>

\* The loop breaks: no time left, or receive gave CLOSE, CLOSING, CLOSED or
\* ERROR.  With no time left at the start nothing is received.
ReceiveEnds ==
    /\ chat.pc = "recv"
    /\ \E why \in {"timeout", "closed", "error"} :
          /\ chat.duration = 0 => why = "timeout"
          /\ chat' = leave([chat EXCEPT !.failed =
                               IF why = "error" THEN @ \cup {"receive"} ELSE @],
                           "returned")
    /\ UNCHANGED <<cfg, resolverVars, job, stt, overlap, dest, jobs, checked, proc, liveVars, segVars, upVars>>

\* _heartbeat: ws.send_bytes raises; the task ends with the exception.
HeartbeatFails ==
    /\ chat.pc = "recv"
    /\ chat.duration > 0
    /\ chat.hb = "running"
    /\ chat' = [chat EXCEPT !.hb = "failed", !.failed = @ \cup {"heartbeat"}]
    /\ UNCHANGED <<cfg, resolverVars, job, stt, overlap, dest, jobs, checked, proc, liveVars, segVars, upVars>>

\* The task that runs collect is cancelled where it waits.
CollectCancelled ==
    /\ chat.pc \in {"connect", "login", "join", "recv"}
    /\ chat.pc = "recv" => chat.duration > 0
    /\ chat' = leave(chat, "cancelled")
    /\ UNCHANGED <<cfg, resolverVars, job, stt, overlap, dest, jobs, checked, proc, liveVars, segVars, upVars>>

\* duration_seconds of a call
Durations == {0, 1}

\* Calls on one writer, in any order.
WriterOpen ==
    /\ chat' = [chat EXCEPT !.w = open(@), !.rejected = FALSE]
    /\ UNCHANGED <<cfg, resolverVars, job, stt, overlap, dest, jobs, checked, proc, liveVars, segVars, upVars>>

\* write_danmaku: RuntimeError when the writer is not opened.
WriterWrite ==
    /\ Len(chat.accepted) < MaxChat
    /\ \E text \in Texts :
          chat' = IF chat.w.fp
                  THEN [chat EXCEPT !.w = write_danmaku(@, text),
                                    !.accepted = Append(@, text), !.rejected = FALSE]
                  ELSE [chat EXCEPT !.rejected = TRUE]
    /\ UNCHANGED <<cfg, resolverVars, job, stt, overlap, dest, jobs, checked, proc, liveVars, segVars, upVars>>

WriterClose ==
    /\ chat' = [chat EXCEPT !.w = close(@), !.rejected = FALSE]
    /\ UNCHANGED <<cfg, resolverVars, job, stt, overlap, dest, jobs, checked, proc, liveVars, segVars, upVars>>

\* --------------------------------------------------------------- encoder

\* The files of one segment X: X.flv, X.ass and the temporary X.mp4 in the
\* processing folder, X.mp4 in the upload folder.
Pair(flv, ass, tmp, mp4) == [flv |-> flv, ass |-> ass, tmp |-> tmp, mp4 |-> mp4]

NoProc == [k \in 1..MaxSegments |-> Pair(FALSE, FALSE, FALSE, FALSE)]

\* What ffmpeg and shutil.move give for one pair.
EncodeOutcomes == {"ok", "ffmpeg_fails", "move_fails"}

\* encode_video, one pass of its loop over the .ass files: without X.flv the
\* pair is skipped; with X.mp4 in the upload folder the pair is skipped and
\* its sources are removed; else a leftover temporary file is removed, ffmpeg
\* writes the temporary file, it is moved to the upload folder, and the
\* sources are removed if the configuration says so.
encode_one(p, outcome, delete) ==
    IF ~p.ass \/ ~p.flv THEN p
    ELSE IF p.mp4 THEN [p EXCEPT !.ass = FALSE, !.flv = FALSE]
    ELSE IF outcome # "ok" THEN [p EXCEPT !.tmp = FALSE]
    ELSE Pair(p.flv /\ ~delete, p.ass /\ ~delete, FALSE, TRUE)

\* encode_video() with SKIP_VIDEO_ENCODING off.
EncodeVideo ==
    /\ \E outcome \in [1..MaxSegments -> EncodeOutcomes] :
          proc' = [k \in 1..MaxSegments |->
                     encode_one(proc[k], outcome[k], cfg.DELETE_UPLOADED_FILES)]
    /\ UNCHANGED <<cfg, resolverVars, job, stt, overlap, dest, jobs, chat, checked,
                   liveVars, segVars, upVars>>

\* upload_to_bilibili removes a video it has uploaded, if configured.
UploadRemoves(k) ==
    /\ cfg.DELETE_UPLOADED_FILES
    /\ proc[k].mp4
    /\ proc' = [proc EXCEPT ![k].mp4 = FALSE]
    /\ UNCHANGED <<cfg, resolverVars, job, stt, overlap, dest, jobs, chat, checked,
                   liveVars, segVars, upVars>>

\* The jobs that call upload_to_bilibili: the interval job and the one-shot
\* job that a stream end schedules under an id of its own.
Runners == {"video_pipeline_job", "post_stream_pipeline"}

\* What a bucket loop has decided for the bucket at hand from its queries.
Plan(kind, bvid, part_number) == [kind |-> kind, bvid |-> bvid, part |-> part_number]

NoPlan == Plan("none", 0, 0)

\* One call of upload_to_bilibili: where it is, the buckets left, the plan.
RunState(at, todo, plan) == [at |-> at, todo |-> todo, plan |-> plan]

\* No call in flight; the backend is the one the configuration names.
Overlap(backend) ==
    [backend |-> backend,
     runs |-> [w \in Runners |-> RunState("idle", <<>>, NoPlan)],
     log |-> {}]

OverlapStart ==
    /\ overlap = Overlap("biliup_cli") /\ dest = <<>> /\ jobs = {} /\ chat = NoChat
    /\ checked = "none" /\ proc = NoProc

\* ------------------------------------------------------------- STT codec

\* Longest string, in characters, handed to the codec.
MaxLen == 2

\* Strings are sequences of characters.  The characters escape and unescape
\* treat specially, and the two letters of the escape sequences.
EscChars == {"@", "/", "A", "S"}
\* The characters of a payload: a letter, the separator, the NUL character and
\* a character that takes two bytes in UTF-8.
PayloadChars == {"a", "/", "NUL", "e'"}

StringsOver(chars) == UNION {[1..n -> chars] : n \in 0..MaxLen}

\* str.replace(old, new) for a one-character old.
RECURSIVE replace1(_, _, _)
replace1(s, old, new) ==
    IF s = <<>> THEN <<>>
    ELSE (IF Head(s) = old THEN new ELSE <<Head(s)>>) \o replace1(Tail(s), old, new)

\* str.replace(old, new) for a two-character old: the occurrences are taken
\* from the left and do not overlap.
RECURSIVE replace2(_, _, _)
replace2(s, old, new) ==
    IF Len(s) < 2 THEN s
    ELSE IF SubSeq(s, 1, 2) = old
         THEN new \o replace2(SubSeq(s, 3, Len(s)), old, new)
         ELSE <<Head(s)>> \o replace2(Tail(s), old, new)

escape(s) == replace1(replace1(s, "@", <<"@", "A">>), "/", <<"@", "S">>)

\* An unescape that undoes "@A" before "@S".
unescape_at_first(s) == replace2(replace2(s, <<"@", "A">>, <<"@">>), <<"@", "S">>, <<"/">>)

unescape(s) == replace2(replace2(s, <<"@", "S">>, <<"/">>), <<"@", "A">>, <<"@">>)

_DOUYU_OP_CODE == 689
_HEADER_SIZE == 12

\* str.encode("utf-8"), character by character.
utf8(c) ==
    CASE c = "a" -> <<97>>
      [] c = "/" -> <<47>>
      [] c = "NUL" -> <<0>>
      [] c = "e'" -> <<195, 169>>

RECURSIVE encode(_)
encode(s) == IF s = <<>> THEN <<>> ELSE utf8(Head(s)) \o encode(Tail(s))

\* bytes.decode("utf-8", errors="ignore"): a byte that is no character, and
\* no part of one, is dropped.
RECURSIVE decode(_)
decode(b) ==
    IF b = <<>> THEN <<>>
    ELSE IF Len(b) >= 2 /\ b[1] = 195 /\ b[2] = 169
         THEN <<"e'">> \o decode(SubSeq(b, 3, Len(b)))
         ELSE (CASE b[1] = 97 -> <<"a">>
                 [] b[1] = 47 -> <<"/">>
                 [] b[1] = 0 -> <<"NUL">>
                 [] OTHER -> <<>>) \o decode(Tail(b))

\* struct.pack("<I", n) and struct.unpack_from("<I", data, offset)
pack_u32(n) == <<n % 256, (n \div 256) % 256, (n \div 65536) % 256, (n \div 16777216) % 256>>

unpack_u32(data, offset) ==
    data[offset + 1] + 256 * data[offset + 2] + 65536 * data[offset + 3]
        + 16777216 * data[offset + 4]

\* A pack that frames the payload as it is given.
pack_as_given(payload) ==
    LET payload_bytes == encode(payload) \o <<0>>
        length == Len(payload_bytes) + 8
    IN pack_u32(length) \o pack_u32(length) \o pack_u32(_DOUYU_OP_CODE) \o payload_bytes

\* pack: the payload gets a final "/" if it has none, then a NUL byte; the
\* header is the length twice and the operation code.
pack(payload) ==
    LET terminated == IF payload # <<>> /\ payload[Len(payload)] = "/"
                      THEN payload ELSE Append(payload, "/")
        payload_bytes == encode(terminated) \o <<0>>
        length == Len(payload_bytes) + 8
    IN pack_u32(length) \o pack_u32(length) \o pack_u32(_DOUYU_OP_CODE) \o payload_bytes

\* bytes.split(b"\x00", 1)[0]
RECURSIVE up_to_nul(_)
up_to_nul(b) ==
    IF b = <<>> \/ Head(b) = 0 THEN <<>> ELSE <<Head(b)>> \o up_to_nul(Tail(b))

\* iter_payloads, from an offset (counted from 0) on.
RECURSIVE iter_payloads_from(_, _)
iter_payloads_from(data, offset) ==
    IF offset + 4 > Len(data) THEN <<>>
    ELSE LET packet_size == unpack_u32(data, offset) + 4
         IN IF packet_size <= _HEADER_SIZE \/ offset + packet_size > Len(data)
            THEN <<>>
            ELSE <<decode(up_to_nul(SubSeq(data, offset + _HEADER_SIZE + 1,
                                           offset + packet_size)))>>
                 \o iter_payloads_from(data, offset + packet_size)

iter_payloads(data) == iter_payloads_from(data, 0)

\* One use of the codec: the function called last, the strings it started
\* from, the escaped string or the frames in between, and the result.
Stt(op, args, mid, out) == [op |-> op, args |-> args, mid |-> mid, out |-> out]

NoStt == Stt("none", <<>>, <<>>, <<>>)

CodecStart == stt = NoStt

\* The strings a test hands to the codec.
CodecInputs ==
    {Stt("string", <<s>>, <<>>, <<>>) : s \in StringsOver(EscChars)} \cup
    {Stt("payloads", <<p1, p2>>, <<>>, <<>>) : p1, p2 \in StringsOver(PayloadChars)}

Escape ==
    /\ stt.op = "string"
    /\ stt' = Stt("escape", stt.args, escape(stt.args[1]), <<>>)
    /\ UNCHANGED <<cfg, resolverVars, job, overlap, dest, jobs, chat, checked, proc, liveVars, segVars, upVars>>

Unescape ==
    /\ stt.op = "escape"
    /\ stt' = Stt("unescape", stt.args, stt.mid, unescape(stt.mid))
    /\ UNCHANGED <<cfg, resolverVars, job, overlap, dest, jobs, chat, checked, proc, liveVars, segVars, upVars>>

Pack ==
    /\ stt.op = "payloads"
    /\ stt' = Stt("pack", stt.args, pack(stt.args[1]) \o pack(stt.args[2]), <<>>)
    /\ UNCHANGED <<cfg, resolverVars, job, overlap, dest, jobs, chat, checked, proc, liveVars, segVars, upVars>>

IterPayloads ==
    /\ stt.op = "pack"
    /\ stt' = Stt("iter_payloads", stt.args, stt.mid, iter_payloads(stt.mid))
    /\ UNCHANGED <<cfg, resolverVars, job, overlap, dest, jobs, chat, checked, proc, liveVars, segVars, upVars>>

\* --------------------------------------------------------- stream resolver

\* Caps on the resolver clock and on the bundles the endpoint issues.
MaxClock == 4
MaxBundles == 3

\* _compute_key_expire_at: refresh 5 s ahead of the server expiry; cache for
\* 300 s without one.  In clock units.
KEY_REFRESH_LEAD == 1
KEY_FALLBACK_TTL == 2

\* A key bundle: enc_data (here the number of the bundle) and expire_at as
\* the payload carries it: absent (given = FALSE), or int(raw_expire_at), 0
\* standing for a value that is zero or does not parse.
Bundle(enc_data, given, value) ==
    [enc_data |-> enc_data, given |-> given, value |-> value]

NoBundle == Bundle(0, FALSE, 0)

\* The cache: the bundle, the expiry computed for it, and the time it was
\* fetched at.
KeyCache(data, expire_at, fetched_at) ==
    [data |-> data, expire_at |-> expire_at, fetched_at |-> fetched_at]

Max2(a, b) == IF a >= b THEN a ELSE b

\* An expiry taken from the server as it is.
_compute_key_expire_at_no_lead(t, key_data) ==
    IF key_data.given /\ key_data.value > 0 THEN key_data.value
    ELSE t + KEY_FALLBACK_TTL

\* DouyuH5PlayResolver._compute_key_expire_at
_compute_key_expire_at(t, key_data) ==
    IF key_data.given /\ key_data.value > 0
    THEN Max2(0, key_data.value - KEY_REFRESH_LEAD)
    ELSE t + KEY_FALLBACK_TTL

\* A retry that keeps the cached key.
_keep_key(k) == k

\* DouyuH5PlayResolver._invalidate_key
_invalidate_key(k) == KeyCache(NoBundle, 0, k.fetched_at)

\* One call of resolve_stream_url: where it is, the loop index, the bundle
\* it signs with, the enc_data and the result of every POST it issued, and
\* the bundles it fetched.
Resolving(at, attempt, key_data, posts, results, fetched, reused) ==
    [at |-> at, attempt |-> attempt, key_data |-> key_data, posts |-> posts,
     results |-> results, fetched |-> fetched, reused |-> reused]

ResolverStart ==
    /\ job = NoJob
    /\ clock = 0
    /\ key_cache = KeyCache(NoBundle, 0, 0)
    /\ issued = 0
    /\ resolve = Resolving("returned", 0, NoBundle, <<>>, <<>>, <<>>, FALSE)

\* resolve_stream_url is called: headers are built, the loop starts.
ResolveStart ==
    /\ resolve.at \in {"returned", "raised"}
    /\ resolve' = Resolving("ensure", 0, NoBundle, <<>>, <<>>, <<>>, FALSE)
    /\ UNCHANGED <<clock, key_cache, issued, cfg, job, stt, overlap, dest, jobs, chat, checked, proc, liveVars, segVars, upVars>>

\* _ensure_key finds the cached bundle still valid.
EnsureKeyCached ==
    /\ resolve.at = "ensure"
    /\ key_cache.data # NoBundle /\ clock < key_cache.expire_at
    /\ resolve' = [resolve EXCEPT !.at = "post", !.key_data = key_cache.data, !.reused = TRUE]
    /\ UNCHANGED <<clock, key_cache, issued, cfg, job, stt, overlap, dest, jobs, chat, checked, proc, liveVars, segVars, upVars>>

\* _ensure_key calls the encryption endpoint: the call fails or the payload
\* is refused, or a bundle arrives and is cached.
EnsureKeyFetch ==
    /\ resolve.at = "ensure"
    /\ ~(key_cache.data # NoBundle /\ clock < key_cache.expire_at)
    /\ \/ /\ resolve' = [resolve EXCEPT !.at = "raised", !.fetched = Append(@, NoBundle),
                                  !.reused = FALSE]
          /\ UNCHANGED <<key_cache, issued>>
       \/ /\ issued < MaxBundles
          /\ \E given \in BOOLEAN, value \in 0..(MaxClock + 1) :
                LET key_data == Bundle(issued + 1, given, IF given THEN value ELSE 0)
                IN /\ key_cache' = KeyCache(key_data,
                                      _compute_key_expire_at(clock, key_data), clock)
                   /\ resolve' = [resolve EXCEPT !.at = "post", !.key_data = key_data,
                                         !.fetched = Append(@, key_data),
                                         !.reused = FALSE]
          /\ issued' = issued + 1
    /\ UNCHANGED <<clock, cfg, job, stt, overlap, dest, jobs, chat, checked, proc, liveVars, segVars, upVars>>

\* The statuses a POST to the play endpoint ends with: a body, HTTP 403,
\* another HTTP error status.
PostResults == {"200", "403", "500"}

\* _get_h5play and the except clause around it.
PostPlay ==
    /\ resolve.at = "post"
    /\ \E status \in PostResults, usable \in BOOLEAN :
          LET sent == [resolve EXCEPT !.posts = Append(@, resolve.key_data.enc_data),
                                  !.results = Append(@, status)]
          IN IF status = "200"
             THEN /\ resolve' = [sent EXCEPT !.at = IF usable THEN "returned" ELSE "raised"]
                  /\ key_cache' = key_cache
             ELSE IF status = "403" /\ resolve.attempt = 0
             THEN /\ resolve' = [sent EXCEPT !.at = "ensure", !.attempt = 1]
                  /\ key_cache' = _invalidate_key(key_cache)
             ELSE /\ resolve' = [sent EXCEPT !.at = "raised"]
                  /\ key_cache' = key_cache
    /\ UNCHANGED <<clock, issued, cfg, job, stt, overlap, dest, jobs, chat, checked, proc, liveVars, segVars, upVars>>

\* A second passes.
ClockTick ==
    /\ clock < MaxClock
    /\ clock' = clock + 1
    /\ UNCHANGED <<key_cache, issued, resolve, cfg, job, stt, overlap, dest, jobs, chat, checked, proc, liveVars, segVars, upVars>>

NextResolver ==
    \/ ResolveStart
    \/ EnsureKeyCached
    \/ EnsureKeyFetch
    \/ PostPlay
    \/ ClockTick

\* ------------------------------------------------------------- live state

NoChange == <<>>

Ev(op, s, result, change, committed) ==
    [op |-> op, streamer |-> s, result |-> result,
     change |-> change, committed |-> committed]

NoEv == Ev("none", "-", "-", NoChange, FALSE)

\* StreamSession(streamer_name, start_time, end_time)
StreamSession(s, st, en) == [streamer_name |-> s, start_time |-> st, end_time |-> en]

IsOpen(row) == row.start_time # NULL /\ row.end_time = NULL

OpenSessionsOf(ss, s) ==
    {i \in DOMAIN ss : ss[i].streamer_name = s /\ IsOpen(ss[i])}

\* .order_by(desc(start_time)) ... .first(): a row with the latest start_time.
MostRecentOpen(ss, s) ==
    {i \in OpenSessionsOf(ss, s) :
        \A j \in OpenSessionsOf(ss, s) : ss[j].start_time <= ss[i].start_time}

\* StreamStatusMonitor.is_live
is_live(cache) == cache = "live"

\* StreamStatusMonitor.initialize: the cache after one status call.
initialize(current) == IF current # "unknown" THEN current ELSE "offline"

\* A monitor that takes an unknown result for offline.
detect_change_unknown_is_offline(old, current) ==
    LET seen == IF current = "unknown" THEN "offline" ELSE current
    IN IF old = "uninit" THEN [cache |-> seen, change |-> NoChange]
       ELSE IF seen # old THEN [cache |-> seen, change |-> <<old, seen>>]
       ELSE [cache |-> old, change |-> NoChange]

\* StreamStatusMonitor.detect_change: the cache afterwards and the value returned.
detect_change(old, current) ==
    IF current = "unknown"
    THEN [cache |-> old, change |-> NoChange]
    ELSE IF old = "uninit"
    THEN [cache |-> current, change |-> NoChange]
    ELSE IF current # old
    THEN [cache |-> current, change |-> <<old, current>>]
    ELSE [cache |-> old, change |-> NoChange]

\* The session edit of scheduled_log_stream_end for an edge to new_status at
\* current_time: the set of tables the commit may leave.
SessionEdit(ss, s, new_status, current_time) ==
    IF new_status = "live"
    THEN {Append(ss, StreamSession(s, current_time - STREAM_START_TIME_ADJUSTMENT, NULL))}
    ELSE IF MostRecentOpen(ss, s) # {}
    THEN {[ss EXCEPT ![i].end_time = current_time] : i \in MostRecentOpen(ss, s)}
    ELSE {Append(ss, StreamSession(s, NULL, current_time))}

\* scheduled_log_stream_end: timedelta(minutes=3), in clock units.
POST_STREAM_DELAY == 1

\* id=f'post_stream_pipeline_{streamer_name}'
post_stream_job_id(s) == <<"post_stream_pipeline", s>>

\* A job store that keeps the job an id already has.
add_job_keep_existing(js, id, run_date) == js \cup {[id |-> id, run_date |-> run_date]}

\* scheduler.add_job(..., 'date', run_date, id, replace_existing=True)
add_job(js, id, run_date) ==
    {j \in js : j.id # id} \cup {[id |-> id, run_date |-> run_date]}

\* The application (re)starts: every monitor is constructed anew.
Restart ==
    /\ last_status' = [s \in Streamers |-> "uninit"]
    /\ ev' = NoEv
    /\ UNCHANGED <<now, sessions, segVars, upVars, extVars>>

Initialize(s) ==
    /\ last_status[s] = "uninit"
    /\ \E current \in ApiResults :
        /\ last_status' = [last_status EXCEPT ![s] = initialize(current)]
        /\ ev' = NoEv
    /\ UNCHANGED <<now, sessions, segVars, upVars, extVars>>

\* scheduled_log_stream_end(streamer_name): one live-check tick.
LiveCheck(s) ==
    \E current \in ApiResults, dbok \in BOOLEAN :
        LET d == detect_change(last_status[s], current) IN
        /\ last_status' = [last_status EXCEPT ![s] = d.cache]
        /\ IF d.change = NoChange
           THEN /\ sessions' = sessions
                /\ ev' = Ev("check", s, current, NoChange, FALSE)
           ELSE \E after \in SessionEdit(sessions, s, d.change[2], now) :
                /\ Len(after) <= MaxSessions
                /\ sessions' = IF dbok THEN after ELSE sessions
                /\ ev' = Ev("check", s, current, d.change, dbok)
        \* after the commit: the one-shot pipeline run of a stream end
        /\ jobs' = IF /\ d.change # NoChange /\ d.change[2] = "offline"
                      /\ dbok /\ cfg.PROCESS_AFTER_STREAM_END
                   THEN add_job(jobs, post_stream_job_id(s), now + POST_STREAM_DELAY)
                   ELSE jobs
        /\ UNCHANGED <<now, segVars, upVars, cfg, resolverVars, job, stt, overlap, dest, chat, checked, proc>>

\* A sweeper that closes a stale session at the time of the sweep.
SweptEndAtNow(row, t) == t

\* clean_stale_sessions: the end_time the sweeper gives a stale session.
SweptEnd(row, t) ==
    IF row.start_time + STALE_CAP > t THEN t ELSE row.start_time + STALE_CAP

IsStale(row, t) == IsOpen(row) /\ row.start_time < t - STALE_HORIZON

clean_stale_sessions(ss, t) ==
    [i \in DOMAIN ss |->
        IF IsStale(ss[i], t) THEN [ss[i] EXCEPT !.end_time = SweptEnd(ss[i], t)]
        ELSE ss[i]]

\* One run of the sweeper; the query or the commit may raise, which is logged.
StaleSweep ==
    /\ \E dbok \in BOOLEAN :
        /\ sessions' = IF dbok THEN clean_stale_sessions(sessions, now) ELSE sessions
        /\ ev' = Ev("sweep", "-",
                    IF \E i \in DOMAIN sessions : IsStale(sessions[i], now)
                    THEN "stale" ELSE "none",
                    NoChange, dbok)
    /\ UNCHANGED <<now, last_status, segVars, upVars, extVars>>

\* POST /log_stream_start: start_time = request.start_time or now.
ManualLogStart(s) ==
    /\ Len(sessions) < MaxSessions
    /\ \E st \in {now - STREAM_START_TIME_ADJUSTMENT, now} :
        sessions' = Append(sessions, StreamSession(s, st, NULL))
    /\ ev' = NoEv
    /\ UNCHANGED <<now, last_status, segVars, upVars, extVars>>

\* POST /log_stream_end: start_time optional, end_time = request.end_time or now.
ManualLogEnd(s) ==
    /\ Len(sessions) < MaxSessions
    /\ \E st \in {NULL, now - STREAM_START_TIME_ADJUSTMENT} :
        sessions' = Append(sessions, StreamSession(s, st, now))
    /\ ev' = NoEv
    /\ UNCHANGED <<now, last_status, segVars, upVars, extVars>>

Tick ==
    /\ now < MaxTime
    /\ now' = now + 1
    /\ ev' = NoEv
    /\ UNCHANGED <<last_status, sessions, segVars, upVars, extVars>>

LiveStart ==
    /\ now = STREAM_START_TIME_ADJUSTMENT
    /\ last_status = [s \in Streamers |-> "uninit"]
    /\ sessions = <<>>
    /\ ev = NoEv

\* The recording loop before its first status check.
SegStart ==
    /\ pc = "check"
    /\ seg = 0
    /\ rec = [k \in 1..MaxSegments |-> "idle"]
    /\ col = [k \in 1..MaxSegments |-> "idle"]
    /\ files = {}
    /\ created = {}
    /\ segExit = [k \in 1..MaxSegments |-> "none"]

\* What an upload operation did: the bucket it handled (session id, file
\* names, interval), the calls it issued to the destination, and whether a
\* commit of it failed on a unique constraint and was rolled back.
UpEv(op, session_id, videos, period, calls, rolled_back) ==
    [op |-> op, session_id |-> session_id, videos |-> videos, period |-> period,
     calls |-> calls, rolled_back |-> rolled_back]

NoUp == UpEv("none", 0, <<>>, <<0, 0>>, {}, FALSE)

\* No call of upload_to_bilibili is between two buckets.
NoRun == [backend |-> "-", todo |-> <<>>]

\* The upload side before anything was uploaded.
UpStart ==
    /\ uploaded = {}
    /\ upload_dir = {}
    /\ run = NoRun
    /\ up = NoUp

InitLive ==
    /\ LiveStart /\ SegStart /\ UpStart /\ cfg = DefaultConfig /\ ResolverStart
    /\ CodecStart /\ OverlapStart

\* The codec alone, called on every string up to the longest.
InitCodec ==
    /\ LiveStart /\ SegStart /\ UpStart /\ cfg = DefaultConfig /\ ResolverStart
    /\ OverlapStart
    /\ stt \in CodecInputs

NextCodec == Escape \/ Unescape \/ Pack \/ IterPayloads

SpecCodec == InitCodec /\ [][NextCodec]_vars

InitCollector ==
    /\ LiveStart /\ SegStart /\ UpStart /\ cfg = DefaultConfig /\ ResolverStart /\ CodecStart
    /\ overlap = Overlap("biliup_cli") /\ dest = <<>> /\ jobs = {} /\ checked = "none"
    /\ proc = NoProc
    /\ chat \in {[NoChat EXCEPT !.duration = d] : d \in Durations}

NextCollector ==
    \/ CollectStart
    \/ Connect
    \/ SendLogin
    \/ SendJoin
    \/ ReceiveChat
    \/ ReceiveEnds
    \/ HeartbeatFails
    \/ CollectCancelled

\* One call of collect from its first line to its exit.
SpecCollector == InitCollector /\ [][NextCollector]_vars

NextWriter == WriterOpen \/ WriterWrite \/ WriterClose

\* A writer and a caller that opens, writes and closes as it likes.
SpecWriter == InitLive /\ [][NextWriter]_vars

\* One resolver, its cache empty, and nothing else going on.
SpecResolver == InitLive /\ [][NextResolver]_vars

NextLiveAuto ==
    \/ Restart
    \/ \E s \in Streamers : Initialize(s)
    \/ \E s \in Streamers : LiveCheck(s)
    \/ Tick

NextLive ==
    \/ NextLiveAuto
    \/ StaleSweep
    \/ \E s \in Streamers : ManualLogStart(s)
    \/ \E s \in Streamers : ManualLogEnd(s)

NextSweep ==
    \/ StaleSweep
    \/ Tick
    \/ \E s \in Streamers : ManualLogStart(s)
    \/ \E s \in Streamers : ManualLogEnd(s)

\* The live-state machine driven by the live-check job alone.
SpecLiveAuto == InitLive /\ [][NextLiveAuto]_vars
\* The live-state machine with the stale sweeper and the session endpoints.
SpecLive == InitLive /\ [][NextLive]_vars
\* The stale sweeper over the sessions the session endpoints write.
SpecSweep == InitLive /\ [][NextSweep]_vars

\* ------------------------------------------------ pipeline tick and triggers

\* config.STREAMER_NAME
STREAMER_NAME == "s1"

\* A tick that runs the upload stage whatever the setting says.
upload_stage_always(c) == TRUE

\* scheduled_video_pipeline: getattr(config, "SCHEDULED_UPLOAD_ENABLED", True)
upload_stage_enabled(c) == c.SCHEDULED_UPLOAD_ENABLED

\* scheduled_video_pipeline up to the first step: with PROCESS_AFTER_STREAM_END
\* the tick returns when the monitor of the streamer says live.
PipelineTickStart ==
    /\ job.at = "done"
    /\ job' = IF cfg.PROCESS_AFTER_STREAM_END /\ is_live(last_status[STREAMER_NAME])
              THEN Job("tick", "done", <<>>, FALSE, TRUE)
              ELSE Job("tick", "cleanup", <<>>, FALSE, FALSE)
    /\ UNCHANGED <<cfg, resolverVars, stt, overlap, dest, jobs, chat, checked, proc, liveVars, segVars, upVars>>

\* The scheduler runs the one-shot job of a streamer when its run_date has
\* come: the job leaves the store and scheduled_video_pipeline starts,
\* whatever other run is under way.
PostStreamFire(s) ==
    /\ \E j \in jobs :
          /\ j.id = post_stream_job_id(s)
          /\ j.run_date <= now
          /\ jobs' = jobs \ {j}
    /\ job' = IF cfg.PROCESS_AFTER_STREAM_END /\ is_live(last_status[STREAMER_NAME])
              THEN Job("tick", "done", <<>>, FALSE, TRUE)
              ELSE Job("tick", "cleanup", <<>>, FALSE, FALSE)
    /\ UNCHANGED <<cfg, resolverVars, stt, overlap, dest, chat, checked, proc, liveVars, segVars, upVars>>

\* Time passes up to the next run_date, not beyond it.
SchedulerTick ==
    /\ Tick
    /\ \A j \in jobs : j.run_date > now

\* The gate of the two manual triggers: the latest open session of the
\* streamer, read from the table; if the query raises the run goes ahead.
ManualGateRefuses(dbok) ==
    /\ cfg.PROCESS_AFTER_STREAM_END
    /\ dbok
    /\ OpenSessionsOf(sessions, STREAMER_NAME) # {}

\* POST /run_processing_tasks
TriggerProcessing ==
    /\ job.at = "done"
    /\ \E dbok \in BOOLEAN :
          job' = IF ManualGateRefuses(dbok)
                 THEN Job("processing", "done", <<>>, FALSE, TRUE)
                 ELSE Job("processing", "cleanup", <<>>, FALSE, FALSE)
    /\ UNCHANGED <<cfg, resolverVars, stt, overlap, dest, jobs, chat, checked, proc, liveVars, segVars, upVars>>

\* POST /run_upload_tasks
TriggerUpload ==
    /\ job.at = "done"
    /\ \E dbok \in BOOLEAN :
          job' = IF ManualGateRefuses(dbok)
                 THEN Job("upload", "done", <<>>, FALSE, TRUE)
                 ELSE Job("upload", "load_yaml", <<>>, FALSE, FALSE)
    /\ UNCHANGED <<cfg, resolverVars, stt, overlap, dest, jobs, chat, checked, proc, liveVars, segVars, upVars>>

\* The step after a processing step that returned.
NextProcessingStep(at) ==
    IF at = "cleanup" THEN (IF cfg.SKIP_VIDEO_ENCODING THEN "encode" ELSE "convert")
    ELSE IF at = "convert" THEN "encode"
    ELSE "processed"

\* cleanup_small_files, convert_danmaku, encode_video, one after the other:
\* an exception of a step ends the three; the tick logs it and goes on to the
\* upload stage, the manual run logs it and ends.
ProcessingStep ==
    /\ job.at \in {"cleanup", "convert", "encode"}
    /\ \E ok \in BOOLEAN :
          LET called == [job EXCEPT !.steps = Append(@, job.at)]
              after == IF ok THEN NextProcessingStep(job.at) ELSE "processed"
          IN job' = [called EXCEPT
                        !.raised = job.raised \/ ~ok,
                        !.at = IF after = "processed"
                               THEN (IF job.kind = "tick" THEN "upload_stage" ELSE "done")
                               ELSE after]
    /\ UNCHANGED <<cfg, resolverVars, stt, overlap, dest, jobs, chat, checked, proc, liveVars, segVars, upVars>>

\* scheduled_video_pipeline, second part: nothing when the scheduled upload is
\* switched off, else a database session is opened.
UploadStage ==
    /\ job.at = "upload_stage"
    /\ job' = IF upload_stage_enabled(cfg)
              THEN [job EXCEPT !.steps = Append(@, "open_db"), !.at = "load_yaml"]
              ELSE [job EXCEPT !.at = "done"]
    /\ UNCHANGED <<cfg, resolverVars, stt, overlap, dest, jobs, chat, checked, proc, liveVars, segVars, upVars>>

\* load_yaml_config: without a valid config.yaml neither call is made.
LoadYaml ==
    /\ job.at = "load_yaml"
    /\ \E loaded \in BOOLEAN :
          job' = [job EXCEPT !.at = IF loaded THEN "bvid_update" ELSE "done",
                             !.raised = job.raised \/ ~loaded]
    /\ UNCHANGED <<cfg, resolverVars, stt, overlap, dest, jobs, chat, checked, proc, liveVars, segVars, upVars>>

\* await update_video_bvids(db)
BvidUpdateStep ==
    /\ job.at = "bvid_update"
    /\ \E ok \in BOOLEAN :
          job' = [job EXCEPT !.steps = Append(@, "bvid_update"),
                             !.at = IF ok THEN "upload" ELSE "done",
                             !.raised = job.raised \/ ~ok]
    /\ UNCHANGED <<cfg, resolverVars, stt, overlap, dest, jobs, chat, checked, proc, liveVars, segVars, upVars>>

\* await upload_to_bilibili(db)
UploadStep ==
    /\ job.at = "upload"
    /\ \E ok \in BOOLEAN :
          job' = [job EXCEPT !.steps = Append(@, "upload"), !.at = "done",
                             !.raised = job.raised \/ ~ok]
    /\ UNCHANGED <<cfg, resolverVars, stt, overlap, dest, jobs, chat, checked, proc, liveVars, segVars, upVars>>

\* The settings that matter to the tick, in every combination.
PipelineConfigs ==
    {Config(FALSE, DELAY_HOURS, after_end, skip, scheduled) :
        after_end \in BOOLEAN, skip \in BOOLEAN, scheduled \in BOOLEAN}

InitPipeline ==
    /\ LiveStart /\ SegStart /\ UpStart /\ ResolverStart /\ CodecStart /\ OverlapStart
    /\ cfg \in PipelineConfigs

NextPipeline ==
    \/ PipelineTickStart
    \/ TriggerProcessing
    \/ TriggerUpload
    \/ ProcessingStep
    \/ UploadStage
    \/ LoadYaml
    \/ BvidUpdateStep
    \/ UploadStep
    \/ Initialize(STREAMER_NAME)
    \/ LiveCheck(STREAMER_NAME)

\* The pipeline tick and the manual triggers next to the live check of the
\* streamer they refer to.
SpecPipeline == InitPipeline /\ [][NextPipeline]_vars

\* PROCESS_AFTER_STREAM_END on and off.
PostStreamConfigs ==
    {Config(FALSE, DELAY_HOURS, after_end, FALSE, TRUE) : after_end \in BOOLEAN}

InitPostStream ==
    /\ LiveStart /\ SegStart /\ UpStart /\ ResolverStart /\ CodecStart /\ OverlapStart
    /\ cfg \in PostStreamConfigs

NextPostStream ==
    \/ Initialize(STREAMER_NAME)
    \/ LiveCheck(STREAMER_NAME)
    \/ PostStreamFire(STREAMER_NAME)
    \/ SchedulerTick

\* The live check of a streamer and the one-shot runs it schedules.
SpecPostStream == InitPostStream /\ [][NextPostStream]_vars

\* -------------------------------------------------------- segment pipeline

PartSuffixes == {"flv.part", "xml.part"}

\* _finalize_part_path: the path without its ".part" suffix.
_finalize_part_path(sfx) == IF sfx = "flv.part" THEN "flv" ELSE "xml"

RecEnded == {"ok", "nonzero", "raised", "cancelled"}
ColEnded == {"ok", "raised", "cancelled"}

\* _run_streamer: the outer status check; anything but live sleeps and retries.
CheckLive ==
    /\ pc = "check"
    /\ \E is_live_now \in ApiResults :
        /\ pc' = IF is_live_now = "live" THEN "resolve" ELSE "check"
        /\ checked' = is_live_now
    /\ UNCHANGED <<seg, rec, col, files, created, segExit, liveVars, upVars,
                   cfg, resolverVars, job, stt, overlap, dest, jobs, chat, proc>>

\* _run_streamer: resolve_stream_url; a failure sleeps retry_delay and retries.
Resolve ==
    /\ pc = "resolve"
    /\ \E resolved \in BOOLEAN :
        pc' = IF resolved THEN "start" ELSE "resolve"
    /\ UNCHANGED <<seg, rec, col, files, created, segExit, liveVars, upVars, extVars>>

\* run_one_segment up to its await: both tasks are created.
StartSegment ==
    /\ pc = "start"
    /\ seg < MaxSegments
    /\ seg' = seg + 1
    /\ rec' = [rec EXCEPT ![seg + 1] = "running"]
    /\ col' = [col EXCEPT ![seg + 1] = "started"]
    /\ pc' = "gather"
    /\ UNCHANGED <<files, created, segExit, liveVars, upVars, extVars>>

\* FfmpegRecorder.record: the child process cannot be spawned.
RecorderSpawnFails(k) ==
    /\ rec[k] = "running"
    /\ <<k, "flv.part">> \notin created
    /\ rec' = [rec EXCEPT ![k] = "raised"]
    /\ UNCHANGED <<pc, seg, col, files, created, segExit, liveVars, upVars, extVars>>

\* The child process opens its output file.
RecorderWrites(k) ==
    /\ rec[k] = "running"
    /\ <<k, "flv.part">> \notin created
    /\ files' = files \cup {<<k, "flv.part">>}
    /\ created' = created \cup {<<k, "flv.part">>}
    /\ UNCHANGED <<pc, seg, rec, col, segExit, liveVars, upVars, extVars>>

\* The child process ends (or is killed on timeout): record returns its code.
RecorderExits(k) ==
    /\ rec[k] = "running"
    /\ \E rc \in {"ok", "nonzero"} : rec' = [rec EXCEPT ![k] = rc]
    /\ UNCHANGED <<pc, seg, col, files, created, segExit, liveVars, upVars, extVars>>

\* DouyuDanmakuCollector.collect: writer.open() creates the transcript.
CollectorOpens(k) ==
    /\ col[k] = "started"
    /\ col' = [col EXCEPT ![k] = "collecting"]
    /\ files' = files \cup {<<k, "xml.part">>}
    /\ created' = created \cup {<<k, "xml.part">>}
    /\ UNCHANGED <<pc, seg, rec, segExit, liveVars, upVars, extVars>>

\* collect returns its count: duration over, peer closed, or connect refused.
CollectorReturns(k) ==
    /\ col[k] = "collecting"
    /\ col' = [col EXCEPT ![k] = "ok"]
    /\ UNCHANGED <<pc, seg, rec, files, created, segExit, liveVars, upVars, extVars>>

\* collect raises: a send on the socket fails, or the connect fails with an
\* error other than ClientError / SSLError.
CollectorRaises(k) ==
    /\ col[k] = "collecting"
    /\ col' = [col EXCEPT ![k] = "raised"]
    /\ UNCHANGED <<pc, seg, rec, files, created, segExit, liveVars, upVars, extVars>>

\* A wait that ends with the first task that returns.
GatherReadyFirstCompleted(k) == rec[k] \in {"ok", "nonzero"} \/ col[k] = "ok"

\* asyncio.gather(record_task, danmaku_task) hands back both results.
GatherReady(k) == rec[k] \in {"ok", "nonzero"} /\ col[k] = "ok"

\* asyncio.gather re-raises the first exception of either task at once; the
\* other task is left running.
GatherFailed(k) == rec[k] = "raised" \/ col[k] = "raised"

GatherReturns ==
    /\ pc = "gather"
    /\ GatherReady(seg)
    /\ pc' = "finalize_flv"
    /\ UNCHANGED <<seg, rec, col, files, created, segExit, liveVars, upVars, extVars>>

\* run_one_segment is left by the exception; _run_streamer logs it.
GatherRaises ==
    /\ pc = "gather"
    /\ GatherFailed(seg)
    /\ segExit' = [segExit EXCEPT ![seg] = "raised"]
    /\ pc' = "after"
    /\ UNCHANGED <<seg, rec, col, files, created, liveVars, upVars, extVars>>

\* if part.exists(): part.replace(final)
Finalize(fs, k, sfx) ==
    IF <<k, sfx>> \in fs
    THEN (fs \ {<<k, sfx>>}) \cup {<<k, _finalize_part_path(sfx)>>}
    ELSE fs

FinalizeFlv ==
    /\ pc = "finalize_flv"
    /\ files' = Finalize(files, seg, "flv.part")
    /\ pc' = "finalize_xml"
    /\ UNCHANGED <<seg, rec, col, created, segExit, liveVars, upVars, extVars>>

FinalizeXml ==
    /\ pc = "finalize_xml"
    /\ files' = Finalize(files, seg, "xml.part")
    /\ segExit' = [segExit EXCEPT ![seg] = "returned"]
    /\ pc' = "after"
    /\ UNCHANGED <<seg, rec, col, created, liveVars, upVars, extVars>>

\* A loop that goes on only while the check says live.
leaves_segment_loop_unless_live(still_live) == still_live # "live"

\* if still_live is False: break
leaves_segment_loop(still_live) == still_live = "offline"

\* _run_streamer after the segment: a definite offline leaves the segment
\* loop, anything else sleeps retry_delay and records the next segment.
AfterSegment ==
    /\ pc = "after"
    /\ \E still_live \in ApiResults :
        /\ pc' = IF leaves_segment_loop(still_live) THEN "check" ELSE "resolve"
        /\ checked' = still_live
    /\ UNCHANGED <<seg, rec, col, files, created, segExit, liveVars, upVars,
                   cfg, resolverVars, job, stt, overlap, dest, jobs, chat, proc>>

\* run_recording_service on the stop signal: the streamer task is cancelled
\* where it waits, and with it every task still running.
Stop ==
    /\ pc # "stopped"
    /\ pc' = "stopped"
    /\ rec' = [k \in 1..MaxSegments |-> IF rec[k] = "running" THEN "cancelled" ELSE rec[k]]
    /\ col' = [k \in 1..MaxSegments |->
                 IF col[k] \in {"started", "collecting"} THEN "cancelled" ELSE col[k]]
    /\ UNCHANGED <<seg, files, created, segExit, liveVars, upVars, extVars>>

InitSegment == InitLive

NextSegment ==
    \/ CheckLive
    \/ Resolve
    \/ StartSegment
    \/ \E k \in 1..MaxSegments : RecorderSpawnFails(k)
    \/ \E k \in 1..MaxSegments : RecorderWrites(k)
    \/ \E k \in 1..MaxSegments : RecorderExits(k)
    \/ \E k \in 1..MaxSegments : CollectorOpens(k)
    \/ \E k \in 1..MaxSegments : CollectorReturns(k)
    \/ \E k \in 1..MaxSegments : CollectorRaises(k)
    \/ GatherReturns
    \/ GatherRaises
    \/ FinalizeFlv
    \/ FinalizeXml
    \/ AfterSegment
    \/ Stop

\* The recording loop of one streamer and the tasks of its segments.
SpecSegment == InitSegment /\ [][NextSegment]_vars

\* cleanup_small_files, run in the thread pool, for one X.flv below
\* MIN_FILE_SIZE_MB: the video is removed and, if X.xml exists, the chat file.
CleanupSmallFile(k) ==
    /\ <<k, "flv">> \in files
    /\ files' = files \ {<<k, "flv">>, <<k, "xml">>}
    /\ UNCHANGED <<pc, seg, rec, col, created, segExit, liveVars, upVars, extVars>>

NextSegmentCleanup ==
    \/ NextSegment
    \/ \E k \in 1..MaxSegments : CleanupSmallFile(k)

\* The recording loop with the cleanup step of the processing stage beside it.
SpecSegmentCleanup == InitSegment /\ [][NextSegmentCleanup]_vars

PartsOf(k) == {f \in files : f[1] = k /\ f[2] \in PartSuffixes}

\* ------------------------------------------------------ upload orchestrator

\* config.DEFAULT_STREAMER_NAME
DEFAULT_STREAMER_NAME == "s1"
\* config.DELETE_UPLOADED_FILES
DELETE_UPLOADED_FILES == cfg.DELETE_UPLOADED_FILES
\* config.BILIUP_RATE_LIMIT_APPEND_MAX_RETRIES
BILIUP_RATE_LIMIT_APPEND_MAX_RETRIES == 1
\* upload_to_bilibili: timedelta(days=3), in clock units.
SESSION_LOOKBACK == 3
\* Cap on the number of rows of uploaded_videos.
MaxRows == 3
\* and at most this many calls the destination accepts
MaxSent == 3

\* A bvid is None (NULL), the empty string, or an identifier "BV...".
EMPTY == 0
BVIDS == {1, 2}
\* Python truthiness of an Optional[str].
Truthy(bvid) == bvid # NULL /\ bvid # EMPTY
\* str.startswith('BV')
StartsWithBV(bvid) == bvid \in BVIDS

Backends == {"biliup_cli", "bilitool"}
\* The title of a created submission and the title of an appended part.
Titles == {"main", "part"}
\* Recording file names "<streamer>录播<timestamp>.<ext>", by their timestamp.
FileNames == {<<"rec", t>> : t \in 0..3}

\* UploadedVideo(bvid, title, first_part_filename, upload_time)
UploadedVideo(bvid, title, fname, upload_time) ==
    [bvid |-> bvid, title |-> title, first_part_filename |-> fname,
     upload_time |-> upload_time]

\* The timestamp in a file name; the current time if there is none.
get_timestamp_from_filename(f) == IF f[1] = "rec" THEN f[2] ELSE now

\* SQL: x BETWEEN lo AND hi (not true for a NULL x).
Between(x, lo, hi) == x # NULL /\ lo <= x /\ x <= hi

Min(S) == CHOOSE x \in S : \A y \in S : x <= y

\* The orders in which a query or a sort may return S when ordered by key[x].
SortedSeqs(S, key) ==
    {q \in [1..Cardinality(S) -> S] :
        \A i, j \in 1..Cardinality(S) :
            i < j => (q[i] # q[j] /\ key[q[i]] <= key[q[j]])}

\* A table without unique constraints.
CanInsertUnchecked(t, row) == TRUE

\* The unique constraints on uploaded_videos.bvid and .first_part_filename:
\* can the row be inserted, can row r take the bvid.
CanInsert(t, row) ==
    \A q \in t :
        /\ q.first_part_filename # row.first_part_filename
        /\ row.bvid = NULL \/ q.bvid # row.bvid

\* A bvid column that takes a value another row holds.
CanSetBvidUnchecked(t, r, bvid) == TRUE

CanSetBvid(t, r, bvid) == \A q \in t \ {r} : q.bvid # bvid

SetBvid(t, r, bvid) == (t \ {r}) \cup {[r EXCEPT !.bvid = bvid]}

\* A file filter that passes over a row that has no bvid yet.
HasRecordWithBvid(t, f) == \E r \in t : r.first_part_filename = f /\ r.bvid # NULL

HasRecord(t, f) == \E r \in t : r.first_part_filename = f

\* The interval of a session: its span widened by the buffer on both sides;
\* a session without end_time runs until now.
SessionPeriod(id) ==
    <<sessions[id].start_time - STREAM_START_TIME_ADJUSTMENT,
      (IF sessions[id].end_time # NULL THEN sessions[id].end_time ELSE now)
          + STREAM_START_TIME_ADJUSTMENT>>

\* The sessions of the default streamer with both times, ended less than the
\* lookback ago.
CompleteSessions ==
    {i \in DOMAIN sessions :
        /\ sessions[i].streamer_name = DEFAULT_STREAMER_NAME
        /\ sessions[i].start_time # NULL
        /\ sessions[i].end_time # NULL
        /\ sessions[i].end_time > now - SESSION_LOOKBACK}

\* The open session of the default streamer that started last, if any.
CurrentSession ==
    LET opened == {i \in DOMAIN sessions :
                    sessions[i].streamer_name = DEFAULT_STREAMER_NAME /\ IsOpen(sessions[i])}
        last == {i \in opened : \A j \in opened : sessions[j].start_time <= sessions[i].start_time}
    IN IF opened = {} THEN {<<>>} ELSE {<<i>> : i \in last}

\* Is the timestamp of a file inside the interval of a session.
InSessionRange(f, id) ==
    Between(get_timestamp_from_filename(f), SessionPeriod(id)[1], SessionPeriod(id)[2])

\* A grouping loop that keeps the last session range that matches.
last_match(hits) == CHOOSE x \in hits : \A y \in hits : y <= x

\* The loop over session_ranges breaks at the first range that matches.
first_match(hits) == Min(hits)

\* Each video goes to the first session, in list order, whose interval holds
\* its timestamp; buckets are kept in the order of their first video.
RECURSIVE session_videos(_, _, _)
session_videos(videos, all_sessions, acc) ==
    IF videos = <<>> THEN acc
    ELSE LET v == Head(videos)
             hits == {i \in 1..Len(all_sessions) : InSessionRange(v, all_sessions[i])}
         IN IF hits = {} THEN session_videos(Tail(videos), all_sessions, acc)
            ELSE LET id == all_sessions[first_match(hits)]
                     at == {j \in 1..Len(acc) : acc[j].session_id = id}
                 IN IF at = {}
                    THEN session_videos(Tail(videos), all_sessions,
                             Append(acc, [session_id |-> id, videos |-> <<v>>]))
                    ELSE session_videos(Tail(videos), all_sessions,
                             [acc EXCEPT ![Min(at)].videos = Append(@, v)])

\* The videos that no session range holds.
unassigned_videos(videos, all_sessions) ==
    SelectSeq(videos, LAMBDA f : \A i \in 1..Len(all_sessions) :
                                    ~InSessionRange(f, all_sessions[i]))

\* What the start of a run did: the calls it made over the network, whether
\* the login check passed, the files without a row, the sessions in the order
\* they were loaded, and the grouping.  A list the run did not get to is empty.
StartEv(net, login, video_info_list, all_sessions, buckets, unassigned) ==
    [op |-> "start", session_id |-> 0, videos |-> video_info_list, period |-> <<0, 0>>,
     calls |-> {}, rolled_back |-> FALSE, net |-> net, login |-> login,
     all_sessions |-> all_sessions, session_videos |-> buckets,
     unassigned_videos |-> unassigned]

\* upload_to_bilibili up to the bucket loop: login, list and sort the files,
\* drop the files that have a row, load the sessions, group.  With trace the
\* event keeps what the start did; without, it is forgotten.
UploadRunStartAs(trace) ==
    /\ run = NoRun
    /\ \E backend \in Backends, login \in BOOLEAN :
       \E video_files \in SortedSeqs(upload_dir, [f \in upload_dir |-> get_timestamp_from_filename(f)]) :
       \E complete \in SortedSeqs(CompleteSessions,
                                  [i \in CompleteSessions |-> sessions[i].start_time]) :
       \E current \in CurrentSession :
          LET video_info_list == SelectSeq(video_files, LAMBDA f : ~HasRecord(uploaded, f))
              all_sessions == complete \o current
              grouped == login /\ video_info_list # <<>> /\ all_sessions # <<>>
              buckets == IF grouped
                         THEN session_videos(video_info_list, all_sessions, <<>>)
                         ELSE <<>>
          IN /\ run' = IF buckets = <<>> THEN NoRun
                       ELSE [backend |-> backend, todo |-> buckets]
             /\ up' = IF trace
                      THEN StartEv(<<"login">>, login,
                               IF login THEN video_info_list ELSE <<>>,
                               IF login /\ video_info_list # <<>> THEN all_sessions ELSE <<>>,
                               buckets,
                               IF grouped THEN unassigned_videos(video_info_list, all_sessions)
                               ELSE <<>>)
                      ELSE NoUp
    /\ UNCHANGED <<uploaded, upload_dir, liveVars, segVars, extVars>>

UploadRunStart == UploadRunStartAs(FALSE)

UploadRunStartTraced == UploadRunStartAs(TRUE)

\* A bvid query that forgets the period.
RowsAnyPeriod(t, period) == t

\* The rows whose upload_time lies in a period.
RowsInPeriod(t, period) ==
    {r \in t : Between(r.upload_time, period[1], period[2])}

\* The bvid found by the query for the latest row with a bvid: None if there is
\* no such row.
ExistingBvids(rows) ==
    LET with_bvid == {r \in rows : r.bvid # NULL}
        latest == {r \in with_bvid : \A q \in with_bvid : q.upload_time <= r.upload_time}
    IN IF with_bvid = {} THEN {NULL} ELSE {r.bvid : r \in latest}

\* A bucket loop without the guard on pending rows.
NoPendingRecord(rows) == FALSE

\* The guard on a row that still waits for its bvid.
PendingRecord(rows) == \E r \in rows : r.bvid = NULL

\* A part counter that counts only the rows that have a bvid.
start_part_number_with_bvid(rows) == Cardinality({r \in rows : r.bvid # NULL}) + 1

\* The part number of the first appended file: the rows of the period, counted
\* whether or not they have a bvid, plus one.
start_part_number(rows) == Cardinality(rows) + 1

\* A create path that takes the last video of the bucket.
last_video_info(videos) == videos[Len(videos)]

\* The create path handles videos[0], the earliest video of the bucket.
first_video_info(videos) == Head(videos)

\* What one call of an upload wrapper gives: the submission went through,
\* it failed, or it failed with the rate-limit code 21540 in its output.
CallResults == {"ok", "fail", "21540"}

\* _biliup_append_submit_succeeded / append_video_entry: the boolean the
\* append loop gets.
append_success(result) == result = "ok"

\* A call to the destination for one file: the part number it went out with
\* and the results of the attempts made, in order.
Call(kind, f, bvid, part_number, results) ==
    [kind |-> kind, file |-> f, bvid |-> bvid, part |-> part_number,
     results |-> results]

\* A handler that removes a file as soon as its upload call went through.
remove_after_upload(dir, sent, committed) == dir \ sent

\* os.remove follows the commit of the row of the file.
remove_after_commit(dir, sent, committed) == dir \ committed

\* The append loop over the videos of a bucket: a file that has a row by now
\* is skipped; every other file is sent as the next part and, if the call
\* succeeded, gets a row without bvid.
RECURSIVE append_parts(_, _, _, _, _, _, _)
append_parts(videos, t, part_number, bvid, append_result, commit_ok, calls) ==
    IF videos = <<>> THEN [table |-> t, calls |-> calls]
    ELSE LET f == Head(videos)
             new_upload == UploadedVideo(NULL, "part", f, get_timestamp_from_filename(f))
         IN IF HasRecord(t, f)
            THEN append_parts(Tail(videos), t, part_number, bvid, append_result,
                              commit_ok, calls)
            ELSE append_parts(Tail(videos),
                     IF /\ append_success(append_result[f]) /\ commit_ok[f]
                        /\ CanInsert(t, new_upload)
                     THEN t \cup {new_upload} ELSE t,
                     part_number + 1, bvid, append_result, commit_ok,
                     calls \cup {Call("append", f, bvid, part_number,
                                      <<append_result[f]>>)})

\* What the create call and, for bilitool, the listing poll after it give.
CreateOutcomes(backend) ==
    {[upload_result |-> FALSE, acquired_bvid |-> NULL, polled |-> NULL]} \cup
    (IF backend = "biliup_cli"
     THEN {[upload_result |-> TRUE, acquired_bvid |-> b, polled |-> NULL] :
              b \in BVIDS \cup {NULL}}
     ELSE {[upload_result |-> TRUE, acquired_bvid |-> NULL, polled |-> b] :
              b \in BVIDS \cup {NULL}})

\* The calls that went through, by part number.
RECURSIVE accepted(_)
accepted(calls) ==
    LET ok == {c \in calls : c.results[Len(c.results)] = "ok"}
    IN IF ok = {} THEN <<>>
       ELSE LET c == CHOOSE c \in ok : \A d \in ok : c.part <= d.part
            IN <<[kind |-> c.kind, file |-> c.file, bvid |-> c.bvid, part |-> c.part]>>
               \o accepted(ok \ {c})

\* What db.commit() of the row of a file may give: with trace it may fail
\* for a reason of the database's own, without it goes through unless a
\* unique constraint stops it.
CommitResults(trace, fs) == IF trace THEN [fs -> BOOLEAN] ELSE {[f \in fs |-> TRUE]}

\* One pass of the bucket loop of upload_to_bilibili.  With trace the calls
\* the destination accepted are kept.
ProcessBucketAs(trace) ==
    /\ run # NoRun
    /\ LET b == Head(run.todo)
           period == SessionPeriod(b.session_id)
           in_period == RowsInPeriod(uploaded, period)
           rest == IF Tail(run.todo) = <<>> THEN NoRun
                   ELSE [run EXCEPT !.todo = Tail(@)]
       IN \E existing_bvid \in ExistingBvids(in_period) :
          IF ~Truthy(existing_bvid) /\ PendingRecord(in_period)
          THEN \* a row waits for its bvid: continue
               /\ uploaded' = uploaded
               /\ run' = rest
               /\ up' = UpEv("bucket", b.session_id, b.videos, period, {}, FALSE)
          ELSE IF Truthy(existing_bvid)
          THEN \* append every video as a part
               \E append_result \in [{b.videos[i] : i \in DOMAIN b.videos} -> CallResults] :
               \E commit_ok \in CommitResults(trace, DOMAIN append_result) :
                  LET res == append_parts(b.videos, uploaded, start_part_number(in_period),
                                          existing_bvid, append_result, commit_ok, {})
                  IN /\ Cardinality(res.table) <= MaxRows
                     /\ uploaded' = res.table
                     /\ run' = rest
                     /\ up' = UpEv("bucket", b.session_id, b.videos, period, res.calls, FALSE)
          ELSE \* create a submission from the first video only
               \E o \in CreateOutcomes(run.backend) :
               \E commit_ok \in CommitResults(trace, {first_video_info(b.videos)}) :
                  LET f == first_video_info(b.videos)
                      new_upload == UploadedVideo(o.acquired_bvid, "main", f,
                                                  get_timestamp_from_filename(f))
                      inserted == /\ o.upload_result /\ commit_ok[f]
                                  /\ CanInsert(uploaded, new_upload)
                      t1 == IF inserted THEN uploaded \cup {new_upload} ELSE uploaded
                      poll_set == inserted /\ o.polled # NULL
                      poll_ok == poll_set /\ CanSetBvid(t1, new_upload, o.polled)
                      rolled_back == \/ o.upload_result /\ ~inserted
                                     \/ poll_set /\ ~poll_ok
                  IN /\ Cardinality(t1) <= MaxRows
                     /\ uploaded' = IF poll_ok THEN SetBvid(t1, new_upload, o.polled) ELSE t1
                     \* after a failed commit of the polled bvid the database
                     \* session may refuse the queries of the next bucket
                     /\ run' \in (IF poll_set /\ ~poll_ok THEN {rest, NoRun} ELSE {rest})
                     /\ up' = UpEv("bucket", b.session_id, b.videos, period,
                                   {Call("create", f, NULL, 1,
                                         <<IF o.upload_result THEN "ok" ELSE "fail">>)},
                                   rolled_back)
    /\ upload_dir' =
          IF DELETE_UPLOADED_FILES
          THEN remove_after_commit(upload_dir,
                   {c.file : c \in {d \in up'.calls : d.results[Len(d.results)] = "ok"}},
                   {r.first_part_filename : r \in uploaded' \ uploaded})
          ELSE upload_dir
    /\ dest' = IF trace THEN dest \o accepted(up'.calls) ELSE dest
    /\ Len(dest') <= MaxSent
    /\ UNCHANGED <<liveVars, segVars, cfg, resolverVars, job, stt, overlap, jobs, chat, checked, proc>>

ProcessBucket == ProcessBucketAs(FALSE)

ProcessBucketTraced == ProcessBucketAs(TRUE)

\* The title match and the update of update_video_bvids, row by row.
RECURSIVE backfill(_, _, _)
backfill(no_bvid_records, t, all_videos) ==
    IF no_bvid_records = <<>> THEN t
    ELSE LET record == Head(no_bvid_records)
             found_bvid == IF record.title \in DOMAIN all_videos
                           THEN all_videos[record.title] ELSE NULL
         IN IF found_bvid = NULL \/ ~CanSetBvid(t, record, found_bvid)
            THEN backfill(Tail(no_bvid_records), t, all_videos)
            ELSE backfill(Tail(no_bvid_records), SetBvid(t, record, found_bvid), all_videos)

\* What a pass of update_video_bvids did: with trace, the backend it found and
\* the calls it made over the network.
BackfillEv(trace, backend, net) ==
    IF trace
    THEN [op |-> "update_video_bvids", session_id |-> 0, videos |-> <<>>,
          period |-> <<0, 0>>, calls |-> {}, rolled_back |-> FALSE, net |-> net,
          backend |-> backend]
    ELSE UpEv("write", 0, <<>>, <<0, 0>>, {}, FALSE)

\* update_video_bvids: nothing for biliup_cli; for bilitool a login check,
\* then the rows without bvid, latest upload_time first, against the two
\* listings of the destination.
UpdateVideoBvidsAs(trace) ==
    /\ \E backend \in Backends, login \in BOOLEAN :
          IF backend = "biliup_cli"
          THEN /\ uploaded' = uploaded
               /\ up' = BackfillEv(trace, backend, <<>>)
          ELSE IF ~login \/ {r \in uploaded : r.bvid = NULL} = {}
          THEN /\ uploaded' = uploaded
               /\ up' = BackfillEv(trace, backend, <<"login">>)
          ELSE \E listed \in SUBSET Titles :
               \E all_videos \in [listed -> BVIDS] :
               \E no_bvid_records \in
                      SortedSeqs({r \in uploaded : r.bvid = NULL},
                                 [r \in {q \in uploaded : q.bvid = NULL} |-> 0 - r.upload_time]) :
                  /\ uploaded' = IF listed = {} THEN uploaded
                                 ELSE backfill(no_bvid_records, uploaded, all_videos)
                  /\ up' = BackfillEv(trace, backend, <<"login", "list", "list">>)
    /\ UNCHANGED <<upload_dir, run, liveVars, segVars, extVars>>

UpdateVideoBvids == UpdateVideoBvidsAs(FALSE)

UpdateVideoBvidsTraced == UpdateVideoBvidsAs(TRUE)

\* POST /record_upload
RecordUpload(title, fname, bvid) ==
    /\ LET existing == {r \in uploaded : r.bvid = bvid}
           file_exists == {r \in uploaded : r.first_part_filename = fname}
           new_upload == UploadedVideo(bvid, title, fname, get_timestamp_from_filename(fname))
       IN IF Truthy(bvid) /\ existing # {}
          THEN /\ uploaded' = uploaded
               /\ up' = UpEv("write", 0, <<>>, <<0, 0>>, {}, FALSE)
          ELSE IF file_exists # {}
          THEN \E r \in file_exists :
                  /\ uploaded' = IF Truthy(bvid) /\ ~Truthy(r.bvid) /\ CanSetBvid(uploaded, r, bvid)
                                 THEN SetBvid(uploaded, r, bvid) ELSE uploaded
                  /\ up' = UpEv("write", 0, <<>>, <<0, 0>>, {},
                                Truthy(bvid) /\ ~Truthy(r.bvid) /\ ~CanSetBvid(uploaded, r, bvid))
          ELSE /\ uploaded' = IF CanInsert(uploaded, new_upload)
                              THEN uploaded \cup {new_upload} ELSE uploaded
               /\ up' = UpEv("write", 0, <<>>, <<0, 0>>, {},
                             ~CanInsert(uploaded, new_upload))
    /\ Cardinality(uploaded') <= MaxRows
    /\ UNCHANGED <<upload_dir, run, liveVars, segVars, extVars>>

\* PUT /update_video_bvid/{video_id}: video is the row with that id, if any.
UpdateVideoBvid(bvid) ==
    /\ \E video \in {v \in SUBSET uploaded : Cardinality(v) <= 1} :
          LET bvid_exists == \E q \in uploaded \ video : q.bvid = bvid
          IN uploaded' = IF ~Truthy(bvid) \/ ~StartsWithBV(bvid) \/ bvid_exists \/ video = {}
                         THEN uploaded
                         ELSE SetBvid(uploaded, CHOOSE r \in video : TRUE, bvid)
    /\ up' = UpEv("write", 0, <<>>, <<0, 0>>, {}, FALSE)
    /\ UNCHANGED <<upload_dir, run, liveVars, segVars, extVars>>

\* Session tables the live-state machine and the session endpoints leave.
SessionScenarios ==
    { <<StreamSession("s1", 0, 1)>>,
      <<StreamSession("s1", 0, 1), StreamSession("s1", 3, NULL)>>,
      <<StreamSession("s1", 0, 1), StreamSession("s1", 2, 3)>>,
      <<StreamSession("s1", 1, NULL), StreamSession("s1", 2, NULL)>>,
      <<StreamSession("s2", 0, 3), StreamSession("s1", NULL, 2)>>,
      <<StreamSession("s1", 2, 3), StreamSession("s1", 0, 0)>> }

InitUpload ==
    /\ now = MaxTime
    /\ last_status = [s \in Streamers |-> "uninit"]
    /\ sessions \in SessionScenarios
    /\ ev = NoEv
    /\ SegStart
    /\ uploaded = {}
    /\ upload_dir = FileNames
    /\ run = NoRun
    /\ up = NoUp
    /\ cfg = DefaultConfig
    /\ ResolverStart
    /\ CodecStart
    /\ OverlapStart

NextUpload ==
    \/ UploadRunStart
    \/ ProcessBucket
    \/ UpdateVideoBvids
    \/ \E title \in {"main"}, fname \in FileNames, bvid \in BVIDS \cup {NULL, EMPTY} :
          RecordUpload(title, fname, bvid)
    \/ \E bvid \in BVIDS \cup {EMPTY} : UpdateVideoBvid(bvid)

SpecUpload == InitUpload /\ [][NextUpload]_vars

\* The same with DELETE_UPLOADED_FILES switched on and the delay as shipped.
InitUploadDelete ==
    /\ now = MaxTime
    /\ last_status = [s \in Streamers |-> "uninit"]
    /\ sessions \in SessionScenarios
    /\ ev = NoEv
    /\ SegStart
    /\ uploaded = {}
    /\ upload_dir = FileNames
    /\ run = NoRun
    /\ up = NoUp
    /\ cfg = Config(TRUE, DELAY_HOURS, FALSE, FALSE, TRUE)
    /\ ResolverStart
    /\ CodecStart
    /\ OverlapStart

SpecUploadDelete == InitUploadDelete /\ [][NextUpload]_vars

\* Two recordings and a file whose name holds no timestamp.
TracedFiles == {<<"rec", 1>>, <<"rec", 2>>, <<"clip", 0>>}

\* The upload folder with a foreign file in it, runs and passes traced.
InitUploadTraced ==
    /\ now = MaxTime
    /\ last_status = [s \in Streamers |-> "uninit"]
    /\ sessions \in SessionScenarios
    /\ ev = NoEv
    /\ SegStart
    /\ uploaded = {}
    /\ upload_dir = TracedFiles
    /\ run = NoRun
    /\ up = NoUp
    /\ cfg = DefaultConfig
    /\ ResolverStart
    /\ CodecStart
    /\ OverlapStart

NextUploadTraced ==
    \/ UploadRunStartTraced
    \/ ProcessBucket
    \/ UpdateVideoBvidsTraced
    \/ \E title \in {"main"}, fname \in TracedFiles, bvid \in BVIDS \cup {NULL, EMPTY} :
          RecordUpload(title, fname, bvid)
    \/ \E bvid \in BVIDS \cup {EMPTY} : UpdateVideoBvid(bvid)

SpecUploadTraced == InitUploadTraced /\ [][NextUploadTraced]_vars

\* Three recordings of one evening, and what the destination took of them.
SentFiles == {<<"rec", 0>>, <<"rec", 1>>, <<"rec", 2>>}

InitUploadSent ==
    /\ now = MaxTime
    /\ last_status = [s \in Streamers |-> "uninit"]
    /\ sessions \in SessionScenarios
    /\ ev = NoEv
    /\ SegStart
    /\ uploaded = {}
    /\ upload_dir = SentFiles
    /\ run = NoRun
    /\ up = NoUp
    /\ cfg = DefaultConfig
    /\ ResolverStart
    /\ CodecStart
    /\ OverlapStart

NextUploadSent ==
    \/ UploadRunStart
    \/ ProcessBucketTraced

\* Run after run of the upload orchestrator, one at a time.
SpecUploadSent == InitUploadSent /\ [][NextUploadSent]_vars

\* The processing folder as recording and conversion may have left it.
InitEncoder ==
    /\ LiveStart /\ SegStart /\ UpStart /\ ResolverStart /\ CodecStart
    /\ overlap = Overlap("biliup_cli") /\ dest = <<>> /\ jobs = {} /\ chat = NoChat
    /\ checked = "none"
    /\ cfg \in {Config(delete, DELAY_HOURS, FALSE, FALSE, TRUE) : delete \in BOOLEAN}
    /\ proc \in [1..MaxSegments ->
                    {Pair(flv, ass, tmp, FALSE) : flv \in BOOLEAN, ass \in BOOLEAN,
                                                   tmp \in BOOLEAN}]

NextEncoder ==
    \/ EncodeVideo
    \/ \E k \in 1..MaxSegments : UploadRemoves(k)

\* Run after run of the encoding step, and the uploads between them.
SpecEncoder == InitEncoder /\ [][NextEncoder]_vars

\* A second call of upload_to_bilibili starts while the first is in flight.
\* Each reads the folder and the tables for itself; the login check passes.
RunStart(who) ==
    /\ overlap.runs[who].at = "idle"
    /\ \A w \in Runners \ {who} : overlap.runs[w].at # "done"
    /\ \E video_files \in SortedSeqs(upload_dir,
                               [f \in upload_dir |-> get_timestamp_from_filename(f)]) :
       \E complete \in SortedSeqs(CompleteSessions,
                                  [i \in CompleteSessions |-> sessions[i].start_time]) :
       \E current \in CurrentSession :
          LET video_info_list == SelectSeq(video_files, LAMBDA f : ~HasRecord(uploaded, f))
              all_sessions == complete \o current
              buckets == IF video_info_list # <<>> /\ all_sessions # <<>>
                         THEN session_videos(video_info_list, all_sessions, <<>>)
                         ELSE <<>>
          IN overlap' = [overlap EXCEPT !.runs[who] =
                            IF buckets = <<>> THEN RunState("done", <<>>, NoPlan)
                            ELSE RunState("loop", buckets, NoPlan)]
    /\ UNCHANGED <<cfg, resolverVars, job, stt, dest, jobs, chat, checked, proc, liveVars, segVars, upVars>>

\* The queries at the head of a pass of the bucket loop, up to the point where
\* the call suspends no more before it reaches the destination.
BucketQueries(who) ==
    /\ overlap.runs[who].at = "loop"
    /\ LET me == overlap.runs[who]
           b == Head(me.todo)
           in_period == RowsInPeriod(uploaded, SessionPeriod(b.session_id))
           next_at == IF Tail(me.todo) = <<>> THEN "done" ELSE "loop"
       IN \E existing_bvid \in ExistingBvids(in_period) :
             overlap' = [overlap EXCEPT !.runs[who] =
                IF ~Truthy(existing_bvid) /\ PendingRecord(in_period)
                THEN RunState(next_at, Tail(me.todo), NoPlan)
                ELSE IF Truthy(existing_bvid)
                THEN RunState("decided", me.todo,
                              Plan("append", existing_bvid, start_part_number(in_period)))
                ELSE RunState("decided", me.todo, Plan("create", NULL, 1))]
    /\ UNCHANGED <<cfg, resolverVars, job, stt, dest, jobs, chat, checked, proc, liveVars, segVars, upVars>>

\* The rest of the pass: the call to the destination, which blocks the event
\* loop, and the commit of the row.  The append loop is taken in one go.
BucketCalls(who) ==
    /\ overlap.runs[who].at = "decided"
    /\ LET me == overlap.runs[who]
           b == Head(me.todo)
           next == RunState(IF Tail(me.todo) = <<>> THEN "done" ELSE "loop",
                            Tail(me.todo), NoPlan)
           Logged(calls) == {[who |-> who, kind |-> c.kind, file |-> c.file,
                              session_id |-> b.session_id] : c \in calls}
       IN IF me.plan.kind = "append"
          THEN \E append_result \in [{b.videos[i] : i \in DOMAIN b.videos} -> CallResults] :
                  LET res == append_parts(b.videos, uploaded, me.plan.part, me.plan.bvid,
                                          append_result,
                                          [f \in DOMAIN append_result |-> TRUE], {})
                  IN /\ Cardinality(res.table) <= MaxRows
                     /\ uploaded' = res.table
                     /\ overlap' = [overlap EXCEPT !.runs[who] = next,
                                                   !.log = @ \cup Logged(res.calls)]
          ELSE \E o \in CreateOutcomes(overlap.backend) :
                  LET f == first_video_info(b.videos)
                      new_upload == UploadedVideo(o.acquired_bvid, "main", f,
                                                  get_timestamp_from_filename(f))
                      inserted == o.upload_result /\ CanInsert(uploaded, new_upload)
                      t1 == IF inserted THEN uploaded \cup {new_upload} ELSE uploaded
                      poll_ok == /\ inserted /\ o.polled # NULL
                                 /\ CanSetBvid(t1, new_upload, o.polled)
                  IN /\ Cardinality(t1) <= MaxRows
                     /\ uploaded' = IF poll_ok THEN SetBvid(t1, new_upload, o.polled) ELSE t1
                     /\ overlap' = [overlap EXCEPT !.runs[who] = next,
                                       !.log = @ \cup Logged({Call("create", f, NULL, 1,
                                                   <<IF o.upload_result THEN "ok" ELSE "fail">>)})]
    /\ UNCHANGED <<cfg, resolverVars, job, stt, dest, jobs, chat, checked, proc, liveVars, segVars, upload_dir, run, up>>

InitOverlap ==
    /\ now = MaxTime
    /\ last_status = [s \in Streamers |-> "uninit"]
    /\ sessions \in SessionScenarios
    /\ ev = NoEv
    /\ SegStart
    /\ uploaded = {}
    /\ upload_dir = TracedFiles
    /\ run = NoRun
    /\ up = NoUp
    /\ cfg = DefaultConfig
    /\ ResolverStart
    /\ CodecStart
    /\ overlap \in {Overlap(backend) : backend \in Backends}
    /\ dest = <<>>
    /\ jobs = {}
    /\ chat = NoChat
    /\ checked = "none" /\ proc = NoProc

NextOverlap ==
    \/ \E who \in Runners : RunStart(who)
    \/ \E who \in Runners : BucketQueries(who)
    \/ \E who \in Runners : BucketCalls(who)

\* Two jobs under different ids, the second started before the first is done.
SpecOverlap == InitOverlap /\ [][NextOverlap]_vars

\* The pipeline left to itself with the biliup_cli backend: the login check
\* passes, every destination call goes through, every commit lands.
CliRunStart ==
    /\ UploadRunStartTraced
    /\ up'.login
    /\ run'.backend # "bilitool"

CliBucket ==
    /\ ProcessBucket
    /\ \A c \in up'.calls : c.results = <<"ok">>
    /\ ~up'.rolled_back

CliBackfill ==
    /\ UpdateVideoBvidsTraced
    /\ up'.backend = "biliup_cli"

NextUploadCli == CliRunStart \/ CliBucket \/ CliBackfill

\* The interval job fires again and again, and a run that has started goes
\* through its buckets.
SpecUploadCli ==
    /\ InitUploadTraced
    /\ [][NextUploadCli]_vars
    /\ WF_vars(CliRunStart)
    /\ WF_vars(CliBucket)
    /\ WF_vars(CliBackfill)

\* ------------------------------------------------- claims: live state

\* C1 (as claimed): after any sequence of live-check ticks, restarts, failed
\* session writes and stale sweeps, every streamer has at most one session
\* with start_time set and end_time null.
C1_AtMostOneOpenSession ==
    \A s \in Streamers : Cardinality(OpenSessionsOf(sessions, s)) <= 1

\* C9 (as claimed): detect_change reports (old, new) exactly when the result
\* is known and differs from the cached status, and then the cache is new; in
\* every other case it reports nothing and cache and sessions stay as they were.
C9_ChangeIffKnownAndDifferent ==
    [][ev'.op = "check" =>
        LET s == ev'.streamer
            r == ev'.result
        IN  IF r # "unknown" /\ r # last_status[s]
            THEN ev'.change = <<last_status[s], r>> /\ last_status'[s] = r
            ELSE /\ ev'.change = NoChange
                 /\ last_status'[s] = last_status[s]
                 /\ sessions' = sessions]_vars

\* C9 (amended): on an initialised cache detect_change reports (old, new)
\* exactly when the result is known and differs from the cache, and then the
\* cache is new; a known result on an uninitialised cache is stored without
\* reporting a change; an unknown result or one equal to the cache changes
\* nothing.  Whenever no change is reported no session row changes.
C9_ChangeIffKnownAndDifferentOnceInitialised ==
    [][ev'.op = "check" =>
        LET s == ev'.streamer
            r == ev'.result
            old == last_status[s]
        IN  /\ \A x \in Streamers \ {s} : last_status'[x] = last_status[x]
            /\ IF r = "unknown" \/ r = old
               THEN ev'.change = NoChange /\ last_status'[s] = old /\ sessions' = sessions
               ELSE IF old = "uninit"
               THEN ev'.change = NoChange /\ last_status'[s] = r /\ sessions' = sessions
               ELSE ev'.change = <<old, r>> /\ last_status'[s] = r]_vars

\* C9 witness: an unknown result arrived while the cache said live with a
\* session open, and the cache still says live.
C9_Witness ==
    /\ ev.op = "check" /\ ev.result = "unknown"
    /\ last_status[ev.streamer] = "live"
    /\ OpenSessionsOf(sessions, ev.streamer) # {}

\* C10 (as claimed): every reported edge changes exactly one session row of
\* its streamer: to live, a row (now - adjustment, null) is inserted; to
\* offline, the open session with the latest start_time gets end_time = now,
\* or a row (null, now) is inserted when none is open.
C10_EdgeEditsOneRow ==
    [][(ev'.op = "check" /\ ev'.change # NoChange) =>
        LET s == ev'.streamer IN
        IF ev'.change[2] = "live"
        THEN sessions' = Append(sessions,
                 StreamSession(s, now - STREAM_START_TIME_ADJUSTMENT, NULL))
        ELSE IF OpenSessionsOf(sessions, s) # {}
        THEN \E i \in MostRecentOpen(sessions, s) :
                 sessions' = [sessions EXCEPT ![i].end_time = now]
        ELSE sessions' = Append(sessions, StreamSession(s, NULL, now))]_vars

C28_FailedWriteKeepsCachedStatus ==
    [][(ev'.op = "check" /\ ev'.change # NoChange /\ ~ev'.committed) =>
          /\ sessions' = sessions
          /\ last_status'[ev'.streamer] = last_status[ev'.streamer]
          /\ detect_change(last_status'[ev'.streamer], ev'.change[2]).change = ev'.change]_vars

\* --------------------------------------------- claims: segment pipeline

\* C5 (as claimed): when run_one_segment completes for segment X (it returns
\* or it ends with the exception of a task), X.flv.part and X.xml.part no
\* longer exist and X.flv and X.xml both exist.
C5_CompletionLeavesBothFinalFiles ==
    [][\A k \in 1..MaxSegments :
        (segExit[k] = "none" /\ segExit'[k] # "none") =>
            /\ <<k, "flv.part">> \notin files' /\ <<k, "xml.part">> \notin files'
            /\ <<k, "flv">> \in files' /\ <<k, "xml">> \in files']_vars

\* C6: within one segment neither rename to the final name happens before
\* both the recorder task and the chat task have ended.
C6_RenameAfterBothEnded ==
    [][\A k \in 1..MaxSegments : \A sfx \in {"flv", "xml"} :
        (<<k, sfx>> \notin files /\ <<k, sfx>> \in files') =>
            rec[k] \in RecEnded /\ col[k] \in ColEnded]_vars

\* C6 witness: the video file is renamed, the chat file not yet, and both
\* tasks have ended.
C6_Witness ==
    \E k \in 1..MaxSegments :
        /\ <<k, "flv">> \in files /\ <<k, "xml.part">> \in files
        /\ rec[k] \in RecEnded /\ col[k] \in ColEnded

\* C7 (as claimed): when the recorder or the chat collector of a segment
\* failed, the other task is not cancelled, and once both have ended and
\* run_one_segment is left, no .part file of the segment remains unrenamed.
C7_FailureStillFinalizes ==
    \A k \in 1..MaxSegments :
        /\ (pc # "stopped" /\ col[k] = "raised") => rec[k] # "cancelled"
        /\ (pc # "stopped" /\ rec[k] \in {"nonzero", "raised"}) => col[k] # "cancelled"
        /\ ( /\ rec[k] \in {"nonzero", "raised"} \/ col[k] = "raised"
             /\ rec[k] \in {"ok", "nonzero", "raised"}
             /\ col[k] \in {"ok", "raised"}
             /\ segExit[k] # "none" ) => PartsOf(k) = {}

\* C8 (as claimed): a new segment (resolve, record, collect) is started only
\* when both tasks of the previous segment have ended and its files are
\* finalized.
C8_SegmentsSequential ==
    \A k \in 1..MaxSegments :
        (k < seg \/ (k = seg /\ pc \in {"resolve", "start"})) =>
            rec[k] \in RecEnded /\ col[k] \in ColEnded /\ PartsOf(k) = {}

\* -------------------------------------------- claims: upload orchestrator

\* C2 (as claimed): for a bucket whose interval already holds a row with a
\* non-null bvid, the run issues no create call; every call it issues for the
\* bucket is an append to the bvid of such a row.
C2_BvidInIntervalOnlyAppends ==
    [][(run # NoRun /\ up'.op = "bucket") =>
        LET period == SessionPeriod(Head(run.todo).session_id)
            with_bvid == {r \in uploaded :
                             /\ r.bvid # NULL
                             /\ Between(r.upload_time, period[1], period[2])}
        IN with_bvid # {} =>
              \A c \in up'.calls :
                  c.kind = "append" /\ c.bvid \in {r.bvid : r \in with_bvid}]_vars

\* C2 (amended): for a bucket in whose interval the row with the latest
\* upload_time among the rows with a non-null bvid has a non-empty bvid, the
\* run issues no create call; every call it issues for the bucket is an
\* append to that bvid.
C2_LatestBvidInIntervalOnlyAppends ==
    [][(run # NoRun /\ up'.op = "bucket") =>
        LET period == SessionPeriod(Head(run.todo).session_id)
            with_bvid == {r \in uploaded :
                             /\ r.bvid # NULL
                             /\ Between(r.upload_time, period[1], period[2])}
            latest == {r \in with_bvid :
                          \A q \in with_bvid : q.upload_time <= r.upload_time}
        IN (with_bvid # {} /\ \A r \in latest : r.bvid # EMPTY) =>
              \A c \in up'.calls :
                  c.kind = "append" /\ \A r \in latest : c.bvid = r.bvid]_vars

\* C2 witness: a bucket was handled by an append to the bvid of a row in its
\* interval, and the appended file got its row.
C2_Witness ==
    /\ up.op = "bucket"
    /\ \E c \in up.calls :
          /\ c.kind = "append"
          /\ \E r \in uploaded : r.bvid = c.bvid /\ r.bvid \in BVIDS
                                 /\ Between(r.upload_time, up.period[1], up.period[2])
          /\ \E r \in uploaded : r.first_part_filename = c.file /\ r.bvid = NULL

\* C3: for a bucket whose interval holds a row without bvid and no row with a
\* non-null bvid, the run issues no create and no append call for the bucket
\* and inserts no row.
C3_PendingBucketIsSkipped ==
    [][(run # NoRun /\ up'.op = "bucket") =>
        LET period == SessionPeriod(Head(run.todo).session_id)
            in_period == {r \in uploaded :
                             Between(r.upload_time, period[1], period[2])}
        IN (in_period # {} /\ \A r \in in_period : r.bvid = NULL) =>
              up'.calls = {} /\ uploaded' = uploaded]_vars

\* C3 witness: a bucket with files to upload was passed over, its interval
\* holding only rows without bvid.
C3_Witness ==
    /\ up.op = "bucket" /\ up.videos # <<>> /\ up.calls = {}
    /\ \E r \in uploaded : Between(r.upload_time, up.period[1], up.period[2])
    /\ \A r \in uploaded :
          Between(r.upload_time, up.period[1], up.period[2]) => r.bvid = NULL

\* C4: no two rows of uploaded_videos share a first_part_filename, no two
\* share a non-null bvid, and an operation whose commit is rolled back leaves
\* every earlier row as it was.
C4_UniqueFilenameAndBvid ==
    /\ [](\A r, q \in uploaded :
            r # q => /\ r.first_part_filename # q.first_part_filename
                     /\ r.bvid # NULL => r.bvid # q.bvid)
    /\ [][up'.rolled_back => uploaded \subseteq uploaded']_vars

\* C4 witness: a create whose row would repeat the bvid of an earlier row was
\* rolled back.
C4_Witness ==
    /\ up.op = "bucket" /\ up.rolled_back
    /\ \E c \in up.calls : c.kind = "create" /\ ~HasRecord(uploaded, c.file)
    /\ \E r \in uploaded : r.bvid \in BVIDS

\* C12: on the append path the first file appended in a run gets part number
\* 1 + (number of rows, with or without bvid, whose upload_time lies in the
\* interval of the session), every later file the next number, and every
\* append targets a non-null bvid of a row in that interval.
C12_AppendStartsAfterRowsInInterval ==
    [][(run # NoRun /\ up'.op = "bucket") =>
        LET b == Head(run.todo)
            period == SessionPeriod(b.session_id)
            count == Cardinality({r \in uploaded :
                                     Between(r.upload_time, period[1], period[2])})
            sent == SelectSeq(b.videos,
                        LAMBDA f : \E c \in up'.calls : c.kind = "append" /\ c.file = f)
        IN  \A i \in 1..Len(sent) : \A c \in up'.calls :
                (c.kind = "append" /\ c.file = sent[i]) =>
                    /\ c.part = count + i
                    /\ \E r \in uploaded :
                          /\ r.bvid # NULL /\ r.bvid = c.bvid
                          /\ Between(r.upload_time, period[1], period[2])]_vars

\* C12 witness: the interval held a row with a bvid and a row without, and the
\* file appended first went out as part 3.
C12_Witness ==
    /\ up.op = "bucket"
    /\ \E c \in up.calls :
          /\ c.kind = "append" /\ c.part = 3
          /\ \A d \in up.calls : d.part >= c.part
          /\ \E r, q \in uploaded :
                /\ r.bvid = c.bvid /\ q.bvid = NULL
                /\ r.first_part_filename # c.file /\ q.first_part_filename # c.file
                /\ Between(r.upload_time, up.period[1], up.period[2])
                /\ Between(q.upload_time, up.period[1], up.period[2])

\* C13: a bucket takes the create path when its interval holds no row without
\* bvid and no usable bvid; the run then issues exactly one create call, for
\* the earliest file of the bucket, and no append call, whether or not a bvid
\* was obtained; the other files of the bucket stay in upload/ and get no row.
\* On every other path no create call is issued.
C13_CreateHandlesEarliestFileOnly ==
    [][(run # NoRun /\ up'.op = "bucket") =>
        LET b == Head(run.todo)
            period == SessionPeriod(b.session_id)
            in_period == {r \in uploaded :
                             Between(r.upload_time, period[1], period[2])}
            with_bvid == {r \in in_period : r.bvid # NULL}
            latest == {r \in with_bvid :
                          \A q \in with_bvid : q.upload_time <= r.upload_time}
            files_of == {b.videos[i] : i \in DOMAIN b.videos}
            earliest == CHOOSE f \in files_of : \A g \in files_of : f[2] <= g[2]
        IN  IF /\ \A r \in in_period : r.bvid # NULL
               /\ \A r \in latest : r.bvid = EMPTY
            THEN /\ \E result \in {"ok", "fail"} :
                        up'.calls = {Call("create", earliest, NULL, 1, <<result>>)}
                 /\ \A r \in uploaded' \ uploaded : r.first_part_filename = earliest
                 /\ \A r \in uploaded : r \in uploaded' \/ r.first_part_filename = earliest
                 /\ \A f \in files_of \ {earliest} : f \in upload_dir => f \in upload_dir'
            ELSE \A c \in up'.calls : c.kind # "create"]_vars

\* C13 witness: a bucket of two files was handled by one create call, the
\* earlier file has its row with a bvid, the later file has no row and is
\* still in upload/.
C13_Witness ==
    /\ up.op = "bucket" /\ Len(up.videos) = 2
    /\ \E c \in up.calls : c.kind = "create" /\ c.file = up.videos[1]
    /\ \E r \in uploaded : r.first_part_filename = up.videos[1] /\ r.bvid \in BVIDS
    /\ ~HasRecord(uploaded, up.videos[2])
    /\ up.videos[2] \in upload_dir

\* C14: the uploader removes a local file only in a step in which the upload
\* call of that file went through and the row of that file was committed; a
\* file whose upload call failed or whose row was not committed is still in
\* upload/.
C14_FileRemovedOnlyAfterRowCommitted ==
    [][ /\ \A f \in upload_dir \ upload_dir' :
              /\ up'.op = "bucket"
              /\ \E c \in up'.calls : c.file = f /\ c.results[Len(c.results)] = "ok"
              /\ \E r \in uploaded' \ uploaded : r.first_part_filename = f
        /\ (run # NoRun /\ up'.op = "bucket") =>
              \A c \in up'.calls :
                  (\/ c.results[Len(c.results)] # "ok"
                   \/ ~\E r \in uploaded' \ uploaded : r.first_part_filename = c.file)
                  => (c.file \in upload_dir => c.file \in upload_dir') ]_vars

\* C14 witness: in one bucket a file went through, has its row and is gone
\* from upload/, and a file whose call failed has no row and is still there.
C14_Witness ==
    /\ up.op = "bucket"
    /\ \E c, d \in up.calls :
          /\ c.results[Len(c.results)] = "ok"
          /\ HasRecord(uploaded, c.file) /\ c.file \notin upload_dir
          /\ d.results[Len(d.results)] # "ok"
          /\ ~HasRecord(uploaded, d.file) /\ d.file \in upload_dir

\* C15 (as claimed): an append that returns the rate-limit code 21540 is
\* retried for the same file, at most BILIUP_RATE_LIMIT_APPEND_MAX_RETRIES
\* times, before the next file is taken: the attempts for a file end with the
\* first result other than 21540 or when the retries are used up; a file
\* whose retry succeeded has exactly one row, and no create call is issued.
C15_RateLimitedAppendIsRetried ==
    [][(run # NoRun /\ up'.op = "bucket") =>
        \A c \in up'.calls :
            c.kind = "append" =>
                LET n == Len(c.results) IN
                /\ n <= 1 + BILIUP_RATE_LIMIT_APPEND_MAX_RETRIES
                /\ \A i \in 1..(n - 1) : c.results[i] = "21540"
                /\ c.results[n] = "21540" => n = 1 + BILIUP_RATE_LIMIT_APPEND_MAX_RETRIES
                /\ (c.results[n] = "ok" /\ ~up'.rolled_back) =>
                      Cardinality({r \in uploaded' : r.first_part_filename = c.file}) = 1
                /\ \A d \in up'.calls : d.kind # "create"]_vars

\* C16 (as claimed): an uploaded file is removed only if DELETE_UPLOADED_FILES
\* is true and either the delay is 0 or a delayed-delete pass finds its row
\* older than the delay; with a delay > 0 the file is still in upload/ right
\* after the upload.
C16_RemovalHonoursDelay ==
    [][\A f \in upload_dir \ upload_dir' :
          /\ cfg.DELETE_UPLOADED_FILES
          /\ \/ cfg.DELETE_UPLOADED_FILES_DELAY_HOURS = 0
             \/ /\ up'.op = "delayed_delete"
                /\ \E r \in uploaded :
                      /\ r.first_part_filename = f
                      /\ r.upload_time < now - cfg.DELETE_UPLOADED_FILES_DELAY_HOURS]_vars

\* ---------------------------------------------- claims: stream resolver

\* C17: one resolve issues at most two POSTs and at most two key fetches; a
\* second POST is issued only after a 403 on the first, which invalidates the
\* cached key, and it carries the enc_data of a bundle fetched after that
\* 403; a 403 on the second POST, or another HTTP error on either POST, ends
\* the resolve with the error.
C17_Retry403OnceWithFreshKey ==
    /\ [](Len(resolve.posts) <= 2 /\ Len(resolve.fetched) <= 2)
    /\ [](Len(resolve.posts) = 2 =>
             /\ resolve.results[1] = "403"
             /\ resolve.posts[2] # resolve.posts[1]
             /\ resolve.fetched # <<>>
             /\ resolve.fetched[Len(resolve.fetched)].enc_data = resolve.posts[2])
    /\ [](\A i \in DOMAIN resolve.results :
             (resolve.results[i] = "500" \/ (resolve.results[i] = "403" /\ i = 2))
                 => (i = Len(resolve.results) /\ resolve.at = "raised"))
    /\ [][(Len(resolve.results) = 0 /\ Len(resolve'.results) = 1
              /\ resolve'.results[1] = "403")
            => (key_cache'.data = NoBundle /\ resolve'.at = "ensure")]_vars
    /\ [][(resolve.at = "ensure" /\ resolve.attempt = 1 /\ resolve' # resolve)
            => (~resolve'.reused /\ Len(resolve'.fetched) = Len(resolve.fetched) + 1)]_vars

\* C17 witness: the first POST, signed with a cached bundle, got a 403; a
\* new bundle was fetched and the second POST, carrying it, went through.
C17_Witness ==
    /\ resolve.at = "returned"
    /\ resolve.results = <<"403", "200">>
    /\ Len(resolve.fetched) = 1
    /\ resolve.posts[2] = resolve.fetched[1].enc_data
    /\ resolve.posts[1] # resolve.posts[2]

\* C18 (as claimed): _ensure_key reuses a cached bundle, without calling the
\* encryption endpoint, exactly while now < max(0, expire_at - 5s) when the
\* payload carried expire_at, and while now < fetch time + 5 minutes when it
\* did not; otherwise it fetches a new bundle.
C18_KeyReusedUntilExpiry ==
    [][(resolve.at = "ensure" /\ resolve' # resolve /\ key_cache.data # NoBundle) =>
        LET valid_until == IF key_cache.data.given
                           THEN Max2(0, key_cache.data.value - KEY_REFRESH_LEAD)
                           ELSE key_cache.fetched_at + KEY_FALLBACK_TTL
        IN  IF clock < valid_until
            THEN resolve'.reused /\ resolve'.fetched = resolve.fetched
                 /\ resolve'.key_data = key_cache.data
            ELSE ~resolve'.reused /\ Len(resolve'.fetched) = Len(resolve.fetched) + 1]_vars

\* C18 (amended): _ensure_key reuses a cached bundle, without calling the
\* encryption endpoint, exactly while now < max(0, expire_at - 5s) when the
\* payload carried an expire_at that parses to a positive integer, and while
\* now < fetch time + 5 minutes when it carried none, or one that is zero,
\* negative or does not parse; otherwise it fetches a new bundle.
C18_KeyReusedUntilUsableExpiry ==
    [][(resolve.at = "ensure" /\ resolve' # resolve /\ key_cache.data # NoBundle) =>
        LET valid_until == IF key_cache.data.given /\ key_cache.data.value > 0
                           THEN Max2(0, key_cache.data.value - KEY_REFRESH_LEAD)
                           ELSE key_cache.fetched_at + KEY_FALLBACK_TTL
        IN  IF clock < valid_until
            THEN resolve'.reused /\ resolve'.fetched = resolve.fetched
                 /\ resolve'.key_data = key_cache.data
            ELSE ~resolve'.reused /\ Len(resolve'.fetched) = Len(resolve.fetched) + 1]_vars

\* C18 witness: a bundle with a server expiry, fetched earlier, is reused one
\* clock unit before the lead time starts.
C18_Witness ==
    /\ resolve.at = "post" /\ resolve.reused
    /\ resolve.key_data = key_cache.data
    /\ key_cache.data.given /\ key_cache.data.value > 0
    /\ clock > key_cache.fetched_at
    /\ clock + 1 = key_cache.data.value - KEY_REFRESH_LEAD

\* --------------------------------- claims: pipeline tick and triggers

\* C19 (as claimed): with PROCESS_AFTER_STREAM_END true, a scheduled tick or a
\* manually triggered processing or upload run that starts while the cached
\* status of the streamer is live is turned away and performs no cleanup,
\* conversion, encode, bvid update or upload step.
C19_NoRunStartsWhileCachedLive ==
    [][(job.at = "done" /\ job' # job) =>
        ((cfg.PROCESS_AFTER_STREAM_END /\ last_status[STREAMER_NAME] = "live")
            => (job'.skipped /\ job'.at = "done" /\ job'.steps = <<>>))]_vars

\* C20: the steps of a scheduled tick come in the order cleanup, conversion,
\* encode, database session, bvid update, upload; conversion only without
\* SKIP_VIDEO_ENCODING; database session, bvid update and upload only with
\* SCHEDULED_UPLOAD_ENABLED, the upload only after the bvid update; a tick
\* in which nothing raised ends with exactly these steps.  A manually
\* triggered upload runs the bvid update and then the upload whatever the
\* setting says.
C20_TickStepsInOrder ==
    LET order == <<"cleanup", "convert", "encode", "open_db", "bvid_update", "upload">>
        Pos(x) == CHOOSE i \in 1..6 : order[i] = x
        Has(x) == \E i \in DOMAIN job.steps : job.steps[i] = x
        expected == <<"cleanup">>
                    \o (IF cfg.SKIP_VIDEO_ENCODING THEN <<>> ELSE <<"convert">>)
                    \o <<"encode">>
                    \o (IF cfg.SCHEDULED_UPLOAD_ENABLED
                        THEN <<"open_db", "bvid_update", "upload">> ELSE <<>>)
    IN  /\ job.kind = "tick" =>
              /\ \A i, j \in DOMAIN job.steps :
                    i < j => Pos(job.steps[i]) < Pos(job.steps[j])
              /\ Has("convert") => ~cfg.SKIP_VIDEO_ENCODING
              /\ (Has("open_db") \/ Has("bvid_update") \/ Has("upload"))
                    => cfg.SCHEDULED_UPLOAD_ENABLED
              /\ Has("upload") => Has("bvid_update")
              /\ (job.at = "done" /\ ~job.raised /\ ~job.skipped)
                    => job.steps = expected
        /\ job.kind = "upload" =>
              /\ job.steps \in {<<>>, <<"bvid_update">>, <<"bvid_update", "upload">>}
              /\ (job.at = "done" /\ ~job.raised /\ ~job.skipped)
                    => job.steps = <<"bvid_update", "upload">>

\* C20 witness: with the scheduled upload switched off a tick has ended after
\* cleanup, conversion and encode, without a database session.
C20_Witness ==
    /\ job.kind = "tick" /\ job.at = "done" /\ ~job.raised /\ ~job.skipped
    /\ ~cfg.SCHEDULED_UPLOAD_ENABLED /\ ~cfg.SKIP_VIDEO_ENCODING
    /\ job.steps = <<"cleanup", "convert", "encode">>

\* ----------------------------------------------------- claims: STT codec

\* C22: for all payloads p1 and p2, unframing the concatenation of their
\* packed frames gives exactly p1 and p2, in that order, and nothing else.
C22_UnframeConcatGivesPayloads ==
    stt.op = "iter_payloads" => stt.out = stt.args

\* C22, as the code has it: the same for all payloads p1 and p2 that end with
\* "/" and hold no NUL character.  A payload that does not end with "/" comes
\* back with "/" appended, and a payload is cut at its first NUL character.
C22_UnframeConcatGivesTerminatedPayloads ==
    LET HasNul(p) == \E i \in DOMAIN p : p[i] = "NUL"
        Terminated(p) == p # <<>> /\ p[Len(p)] = "/"
        Cut(p) == IF HasNul(p)
                  THEN SubSeq(p, 1, (CHOOSE i \in DOMAIN p :
                                        p[i] = "NUL" /\ \A j \in 1..(i - 1) : p[j] # "NUL") - 1)
                  ELSE p
        Expected(p) == IF Terminated(p) THEN Cut(p) ELSE Cut(Append(p, "/"))
    IN stt.op = "iter_payloads" =>
          /\ Len(stt.out) = 2
          /\ \A k \in 1..2 :
                /\ stt.out[k] = Expected(stt.args[k])
                /\ (Terminated(stt.args[k]) /\ ~HasNul(stt.args[k]))
                      => stt.out[k] = stt.args[k]

\* Two payloads that end with "/", the first with a two-byte character, came
\* back from the concatenation of their frames.
C22_Witness ==
    /\ stt.op = "iter_payloads"
    /\ stt.args = <<<<"e'", "/">>, <<"a", "/">>>>
    /\ stt.out = stt.args

\* C23: unescape(escape(s)) = s for every string s, also for strings that
\* hold "@", "/", "@A" or "@S".
C23_UnescapeUndoesEscape ==
    stt.op = "unescape" => stt.out = stt.args[1]

\* The string "@S" went through escape, as "@AS", and came back.
C23_Witness ==
    /\ stt.op = "unescape"
    /\ stt.args[1] = <<"@", "S">>
    /\ stt.mid = <<"@", "A", "S">>
    /\ stt.out = <<"@", "S">>

\* ------------------------------------- claims: upload orchestrator, traced

\* C21: when every file in the upload folder has a row, running the pipeline
\* again (the backfill pass, then the upload run) inserts and changes no row,
\* issues no create or append call, and makes no network call other than one
\* login check.
C21_RerunWithoutNewFilesIsNoOp ==
    [][(\A f \in upload_dir : \E r \in uploaded : r.first_part_filename = f) =>
          /\ up'.op = "start" =>
                /\ uploaded' = uploaded
                /\ run' = NoRun
                /\ up'.net = <<"login">>
          /\ up'.op = "update_video_bvids" =>
                /\ uploaded' = uploaded
                /\ up'.net = <<>>]_vars

\* C21, as the code has it: such a run inserts no row and issues no create or
\* append call.  With biliup_cli it changes no row and its one network call
\* is the login check of the upload run.  With bilitool the backfill pass
\* makes a login check of its own and, when a row has no bvid, lists the
\* submissions of the destination and may fill in the bvid of such rows.
C21_RerunWithoutNewFilesAddsNothing ==
    [][(\A f \in upload_dir : \E r \in uploaded : r.first_part_filename = f) =>
          /\ up'.op = "start" =>
                /\ uploaded' = uploaded
                /\ run' = NoRun
                /\ up'.calls = {}
                /\ up'.net = <<"login">>
          /\ up'.op = "update_video_bvids" =>
                /\ up'.calls = {}
                /\ {r.first_part_filename : r \in uploaded'}
                      = {r.first_part_filename : r \in uploaded}
                /\ Cardinality(uploaded') = Cardinality(uploaded)
                /\ \A r \in uploaded : r.bvid # NULL => r \in uploaded'
                /\ up'.backend = "biliup_cli" => (uploaded' = uploaded /\ up'.net = <<>>)
                /\ up'.backend = "bilitool" =>
                      /\ up'.net \in {<<"login">>, <<"login", "list", "list">>}
                      /\ ({r \in uploaded : r.bvid = NULL} = {}) =>
                            (uploaded' = uploaded /\ up'.net = <<"login">>)]_vars

\* An upload run started with a row for each of the three files in the folder
\* and found nothing to do.
C21_Witness ==
    /\ up.op = "start"
    /\ Cardinality(upload_dir) = 3
    /\ \A f \in upload_dir : \E r \in uploaded : r.first_part_filename = f
    /\ run = NoRun
    /\ up.net = <<"login">>

\* C24: each candidate file ends up in exactly one bucket: that of the first
\* loaded session, in load order, whose closed interval
\* [start - BUFFER, (end or now) + BUFFER] holds the timestamp of the file, or
\* the unassigned bucket when no interval holds it.
C24_FileInFirstMatchingBucket ==
    [][(up'.op = "start" /\ up'.all_sessions # <<>>) =>
          LET A == up'.all_sessions
              B == up'.session_videos
              U == up'.unassigned_videos
              Lo(id) == sessions[id].start_time - STREAM_START_TIME_ADJUSTMENT
              Hi(id) == (IF sessions[id].end_time = NULL THEN now
                         ELSE sessions[id].end_time) + STREAM_START_TIME_ADJUSTMENT
              Hits(f) == {i \in 1..Len(A) :
                             /\ Lo(A[i]) <= get_timestamp_from_filename(f)
                             /\ get_timestamp_from_filename(f) <= Hi(A[i])}
              Places(f) == {<<j, m>> \in (DOMAIN B) \X (1..Len(up'.videos)) :
                               m \in DOMAIN B[j].videos /\ B[j].videos[m] = f}
                           \cup {<<0, m>> : m \in {n \in DOMAIN U : U[n] = f}}
          IN /\ \A i, j \in DOMAIN B : i # j => B[i].session_id # B[j].session_id
             /\ \A k \in DOMAIN up'.videos :
                   LET f == up'.videos[k]
                   IN /\ Cardinality(Places(f)) = 1
                      /\ \A pl \in Places(f) :
                            IF Hits(f) = {} THEN pl[1] = 0
                            ELSE /\ pl[1] # 0
                                 /\ B[pl[1]].session_id = A[Min(Hits(f))]]_vars

\* A run grouped a file whose timestamp lies in the intervals of two sessions.
C24_Witness ==
    /\ up.op = "start"
    /\ Len(up.all_sessions) = 2
    /\ \E k \in DOMAIN up.videos :
          /\ InSessionRange(up.videos[k], up.all_sessions[1])
          /\ InSessionRange(up.videos[k], up.all_sessions[2])
          /\ \E j \in DOMAIN up.session_videos :
                /\ up.session_videos[j].session_id = up.all_sessions[1]
                /\ \E m \in DOMAIN up.session_videos[j].videos :
                      up.session_videos[j].videos[m] = up.videos[k]

\* C25: an existing row is never changed except that its bvid goes from null
\* to a value, and only to a BVID that no other row holds; a non-null bvid is
\* never overwritten or cleared; with biliup_cli the backfill pass changes no
\* row and makes no network call.
C25_RowOnlyGainsFreshBvid ==
    [][/\ \A r \in uploaded :
             \E q \in uploaded' :
                /\ q.first_part_filename = r.first_part_filename
                /\ q.title = r.title
                /\ q.upload_time = r.upload_time
                /\ \/ q.bvid = r.bvid
                   \/ /\ r.bvid = NULL
                      /\ q.bvid \in BVIDS
                      /\ \A p \in uploaded \ {r} : p.bvid # q.bvid
       /\ (up'.op = "update_video_bvids" /\ up'.backend = "biliup_cli") =>
             (uploaded' = uploaded /\ up'.net = <<>>)]_vars

\* C25, as the code has it: an existing row is never changed except in its
\* bvid, which is only ever set to a BVID that no other row holds and is
\* never cleared.  The upload run and the backfill pass set it only on a row
\* whose bvid is null, POST /record_upload only on a row whose bvid is null
\* or empty; PUT /update_video_bvid/{video_id} replaces the bvid the row has.
\* With biliup_cli the backfill pass changes no row and makes no network call.
C25_RowBvidOnlySetToFreshBvid ==
    [][/\ \A r \in uploaded :
             \E q \in uploaded' :
                /\ q.first_part_filename = r.first_part_filename
                /\ q.title = r.title
                /\ q.upload_time = r.upload_time
                /\ \/ q.bvid = r.bvid
                   \/ /\ q.bvid \in BVIDS
                      /\ \A p \in uploaded \ {r} : p.bvid # q.bvid
                      /\ \/ r.bvid = NULL
                         \/ /\ r.bvid = EMPTY
                            /\ \E fname \in TracedFiles : RecordUpload("main", fname, q.bvid)
                         \/ UpdateVideoBvid(q.bvid)
       /\ (up'.op = "update_video_bvids" /\ up'.backend = "biliup_cli") =>
             (uploaded' = uploaded /\ up'.net = <<>>)]_vars

\* The backfill pass gave a bvid to a row that had none while another row
\* held a different one.
C25_Witness ==
    /\ up.op = "update_video_bvids"
    /\ up.backend = "bilitool"
    /\ up.net = <<"login", "list", "list">>
    /\ \E r, q \in uploaded : r # q /\ r.bvid \in BVIDS /\ q.bvid \in BVIDS /\ r.title = "part"

\* C26: a file whose name holds no timestamp gets the current time as its
\* timestamp and goes to the unassigned bucket, never to a session bucket,
\* also when a session is open; no create or append call is issued for it.
C26_UnnamedFileStaysUnassigned ==
    [][/\ (up'.op = "start" /\ up'.all_sessions # <<>>) =>
             \A k \in DOMAIN up'.videos :
                up'.videos[k][1] # "rec" =>
                   /\ get_timestamp_from_filename(up'.videos[k]) = now
                   /\ \E m \in DOMAIN up'.unassigned_videos :
                         up'.unassigned_videos[m] = up'.videos[k]
                   /\ \A j \in DOMAIN up'.session_videos :
                         \A m \in DOMAIN up'.session_videos[j].videos :
                            up'.session_videos[j].videos[m] # up'.videos[k]
       /\ up'.op = "bucket" => \A c \in up'.calls : c.file[1] = "rec"]_vars

\* C30: the files of a session are only ever appended to a submission that
\* was created from a file of the same session, also when the intervals of
\* two sessions overlap or a row of another session lies in the interval.
C30_AppendOnlyToOwnSubmission ==
    [][(run # NoRun /\ up'.op = "bucket") =>
          LET Loaded == {i \in DOMAIN sessions :
                            /\ sessions[i].streamer_name = DEFAULT_STREAMER_NAME
                            /\ sessions[i].start_time # NULL}
              Earlier(y, x) == \/ sessions[y].end_time # NULL /\ sessions[x].end_time = NULL
                               \/ /\ sessions[y].end_time # NULL
                                  /\ sessions[x].end_time # NULL
                                  /\ sessions[y].start_time < sessions[x].start_time
              AssignedTo(f, x) == /\ InSessionRange(f, x)
                                  /\ \A y \in Loaded \ {x} :
                                        InSessionRange(f, y) => ~Earlier(y, x)
          IN \A c \in up'.calls :
                c.kind = "append" =>
                   \E r \in uploaded :
                      /\ r.bvid = c.bvid
                      /\ AssignedTo(r.first_part_filename, up'.session_id)]_vars

\* C29: with runs that keep occurring and destination calls that succeed,
\* every file that lies in the interval of a loaded session is eventually
\* created or appended, and so has a row: no bucket is skipped forever by the
\* guard on pending rows, also after a biliup_cli create that went through
\* without a BVID in its output.
C29_AssignedFileEventuallySent ==
    \A f \in TracedFiles :
        (\E id \in CompleteSessions \cup {c[1] : c \in CurrentSession \ {<<>>}} :
            InSessionRange(f, id))
        ~> HasRecord(uploaded, f)

\* C27: two pipeline runs that overlap in time never both issue a create or
\* append call for the same file, and never both issue a create for the same
\* session bucket.
C27_OverlappingRunsShareNoFile ==
    \A c, d \in overlap.log :
        c.who # d.who =>
           /\ c.file # d.file
           /\ ~(c.kind = "create" /\ d.kind = "create" /\ c.session_id = d.session_id)

\* -------------------------------------------- claims: the destination

\* C31: across all runs, the files appended to one BVID get pairwise
\* distinct part numbers that increase with the file timestamp, also when an
\* append in the middle of a bucket fails while later files of the same run
\* succeed, and when a file is skipped by the re-check.  Stated for a single
\* session and for different files.
C31_PartNumbersDistinctAndOrdered ==
    Len(sessions) = 1 =>
       \A i, j \in DOMAIN dest :
          (/\ dest[i].kind = "append" /\ dest[j].kind = "append"
           /\ dest[i].bvid = dest[j].bvid
           /\ dest[i].file # dest[j].file) =>
             /\ dest[i].part # dest[j].part
             /\ (get_timestamp_from_filename(dest[i].file)
                    < get_timestamp_from_filename(dest[j].file)
                 => dest[i].part < dest[j].part)

\* C32: over all runs, each local file is the subject of at most one
\* successful create or append call, also when the commit of its row fails
\* after the destination accepted the upload.
C32_FileSentAtMostOnce ==
    \A i, j \in DOMAIN dest : i # j => dest[i].file # dest[j].file

\* ------------------------------------------ claims: post-offline job

\* C33: a post-offline pipeline run is scheduled exactly when a live->offline
\* edge was detected, its session change was committed and
\* PROCESS_AFTER_STREAM_END is true; it fires POST_STREAM_DELAY later under
\* the job id post_stream_pipeline_<streamer>, a further offline edge of the
\* streamer before it fires replaces the pending job, and so at most one such
\* job per streamer is pending at any time.
C33_PostStreamJobScheduledOnCommittedOfflineEdge ==
    [][/\ \A s \in Streamers :
             LiveCheck(s) =>
                IF /\ ev'.change = <<"live", "offline">> /\ ev'.committed
                   /\ cfg.PROCESS_AFTER_STREAM_END
                THEN jobs' = {j \in jobs : j.id # post_stream_job_id(s)}
                                \cup {[id |-> post_stream_job_id(s),
                                       run_date |-> now + POST_STREAM_DELAY]}
                ELSE jobs' = jobs
       /\ \A s \in Streamers :
             PostStreamFire(s) =>
                \E j \in jobs : /\ j.id = post_stream_job_id(s)
                                /\ j.run_date = now
                                /\ jobs' = jobs \ {j}
                                /\ job'.kind = "tick"
       /\ (\A s \in Streamers : ~LiveCheck(s) /\ ~PostStreamFire(s)) => jobs' = jobs
       /\ \A s \in Streamers :
             Cardinality({j \in jobs' : j.id = post_stream_job_id(s)}) <= 1]_vars

\* A second stream end of s1 was committed while the job of the first one was
\* due, and one job of s1 waits, for a later run_date.
C33_Witness ==
    /\ cfg.PROCESS_AFTER_STREAM_END
    /\ ev = Ev("check", "s1", "offline", <<"live", "offline">>, TRUE)
    /\ Len(sessions) = 2
    /\ \A i \in DOMAIN sessions : sessions[i].streamer_name = "s1"
    /\ sessions[1].end_time # NULL /\ sessions[2].end_time = now
    /\ sessions[1].end_time < sessions[2].end_time
    /\ jobs = {[id |-> post_stream_job_id("s1"), run_date |-> now + POST_STREAM_DELAY]}

\* --------------------------------- claims: chat collector, XML writer

\* C34: when the websocket fails after it was opened (an error on receive, on
\* sending login or join, or on a heartbeat send), collect does not raise: it
\* closes the socket and the writer and returns the number of entries written.
C34_SocketFailureReturnsCount ==
    (chat.pc = "done" /\ chat.failed # {}) =>
       /\ chat.exit = "returned"
       /\ chat.result = chat.count
       /\ chat.ws = "closed"
       /\ ~chat.w.fp

\* C35: on every exit of collect after the heartbeat was started, the
\* heartbeat task is over and was awaited and the websocket is closed; on
\* every exit at all, a failed connect included, the writer is closed.
C35_ExitReleasesEverything ==
    chat.pc = "done" =>
       /\ ~chat.w.fp
       /\ chat.hb # "none" =>
             /\ chat.hb \in {"cancelled", "failed"}
             /\ chat.awaited
             /\ chat.ws = "closed"

\* collect was cancelled while it received, after it had written an entry.
C35_Witness ==
    /\ chat.pc = "done"
    /\ chat.exit = "cancelled"
    /\ chat.hb = "cancelled" /\ chat.awaited
    /\ chat.count > 0
    /\ chat.w.disk[Len(chat.w.disk)] = "</i>"

\* C37: for any sequence of open, write_danmaku and close calls on one
\* writer, the file holds the declaration and the root start tag once, then
\* one entry per accepted write in call order, each in the file as soon as it
\* was written, and after close one root end tag; repeated open or close
\* calls add nothing, and a write before open is rejected.
C37_FileHoldsHeaderEntriesEnd ==
    LET entries == [i \in DOMAIN chat.accepted |-> <<"d", xml_escape(chat.accepted[i])>>]
    IN /\ chat.w.fp => chat.w.disk = <<"<?xml?>", "<i>">> \o entries
       /\ (~chat.w.fp /\ chat.w.disk # <<>>) =>
             chat.w.disk = <<"<?xml?>", "<i>">> \o entries \o <<"</i>">>
       /\ (~chat.w.fp /\ chat.w.disk = <<>>) => chat.accepted = <<>>

\* ------------------------------------------- claims: recording loop

\* C39: the recording loop starts a segment only after a status check
\* returned live, keeps recording when the check after a segment is unknown,
\* and leaves the segment loop only after a check returned a definite offline
\* or on the stop signal; after a check that said offline no segment is
\* started until a check says live.
C39_SegmentLoopFollowsStatusChecks ==
    [][LET InLoop == {"resolve", "start", "gather", "finalize_flv", "finalize_xml", "after"}
       IN /\ seg' # seg =>
                /\ checked \in {"live", "unknown"}
                /\ seg = 0 => checked = "live"
          /\ (pc = "check" /\ pc' \in InLoop) => checked' = "live"
          /\ (pc = "after" /\ pc' \notin {"after", "stopped"} /\ checked' = "unknown")
                => pc' = "resolve"
          /\ (pc \in InLoop /\ pc' \notin InLoop) =>
                \/ pc' = "stopped"
                \/ pc = "after" /\ pc' = "check" /\ checked' = "offline"]_vars

\* The check after the first segment was unknown, and a second segment runs.
C39_Witness ==
    /\ seg = 2
    /\ pc = "gather"
    /\ checked = "unknown"
    /\ segExit[1] = "returned"

\* C36: the processing stage never acts on a half-finalized segment:
\* whenever it sees X.flv without X.flv.part, the chat file of the segment is
\* X.xml already and not X.xml.part any more, so the cleanup that removes a
\* small X.flv removes its chat file with it and leaves no X.xml behind.
C36_CleanupSeesFinalizedPair ==
    [][\A k \in 1..MaxSegments :
          (CleanupSmallFile(k) /\ <<k, "flv.part">> \notin files) =>
             /\ <<k, "xml.part">> \notin files
             /\ <<k, "xml.part">> \notin files' /\ <<k, "xml">> \notin files']_vars

\* C40: a segment with duration 0 is a no-op: neither X.flv.part nor
\* X.xml.part is created, and so no X.flv or X.xml appears.  Stated for the
\* chat task, which run_one_segment starts with the duration it was given.
C40_ZeroDurationCreatesNoPart ==
    chat.duration = 0 => (~chat.w.fp /\ chat.w.disk = <<>>)

\* ---------------------------------------------------- claims: encoder

\* C38: each processing step is idempotent: a second run of the processing
\* stage with no new recordings changes no file; with DELETE_UPLOADED_FILES
\* unset, the source pair X.flv and X.ass of a segment that is encoded already
\* is still in the processing folder after any number of runs.
C38_EncodedSourcesAreKept ==
    [][\A k \in 1..MaxSegments :
          (/\ ~cfg.DELETE_UPLOADED_FILES
           /\ proc[k].mp4 /\ proc[k].flv /\ proc[k].ass) => proc'[k] = proc[k]]_vars

====
